---- MODULE Spec2Model ----
(***************************************************************************)
(* Engine coordination and game review of the Chessy GUI                   *)
(* (src/chess_gui.py, class ChessAnalyser).                                *)
(*                                                                         *)
(* The Tk event loop is one thread: each handler below is one atomic       *)
(* action.  Background threads (threading.Thread) advance one step at a    *)
(* time and interleave freely with the handlers and with each other; a     *)
(* step is at most one access to shared data, as the interpreter switches  *)
(* threads between operations on shared lists and dicts.                   *)
(***************************************************************************)
EXTENDS Integers, Sequences, FiniteSets, TLC

\* ------------------------------------------------------------------ bounds
MaxPly == 2            \* longest game that can be loaded for review
MaxThreads == 3        \* background threads alive at the same time
ReviewTokens == 2      \* requests dispatched in a behaviour of Spec
ReviewThreads == 2     \* threads alive at the same time in Spec
TimedTokens == 1       \* requests dispatched in a behaviour of SpecTimed
TimedThreads == 1      \* threads alive at the same time in SpecTimed
CacheTokens == 3       \* requests dispatched in a behaviour of SpecCache
CacheThreads == 2      \* threads alive at the same time in SpecCache
CacheCapacity == 2     \* _review_cache_max in SpecCache
EngineTokens == 1      \* requests dispatched in a behaviour of SpecEngine
EngineThreads == 2     \* threads alive at the same time in SpecEngine
EngineQueue == 1       \* callbacks waiting in the event queue in SpecEngine
PlayThreads == 2        \* threads alive at the same time in SpecPlay
PlayPlies == 4          \* moves played on the main board in SpecPlay
ChessyThreads == 2     \* threads alive at the same time in SpecChessy
SettleTokens == 3      \* requests dispatched in a behaviour of SpecSettle
SettleThreads == 2     \* threads alive at the same time in SpecSettle
SettleCapacity == 3    \* _review_cache_max in SpecSettle
MaxQueue == 2          \* callbacks waiting in the Tk event queue
MaxBoardLen == 2       \* moves played on the main board
DebounceTicks == 2     \* _review_debounce_ms (160 ms) in clock ticks
ReviewCapacity == 1    \* _review_cache_max (300 in the program) in Spec

MultiPVChoices == {1, 3}     \* values the settings dialog can give multipv_count
TimeChoices == {300, 1000}   \* values of time_var, in milliseconds

\* The games, engine answers and numbers of requests and threads that the
\* behaviours of Spec explore.
ReviewScope ==
    [clock |-> FALSE, games |-> {<<>>, <<1>>}, scores |-> {1},
     tokens |-> ReviewTokens, threads |-> ReviewThreads,
     capacity |-> ReviewCapacity, queue |-> MaxQueue]

\* ----------------------------------------------------------- plain values
\* None is the empty tuple, a present value x is <<x>>.
None == <<>>
Some(x) == <<x>>

Min(a, b) == IF a < b THEN a ELSE b
Max(a, b) == IF a > b THEN a ELSE b

\* chess.Board.fen(): piece placement, side to move and move counters.  Two
\* move orders that transpose give the same string; positions after a
\* different number of plies never do.
Fen(stack) ==
    [ply   |-> Len(stack),
     white |-> {stack[i] : i \in {j \in 1..Len(stack) : j % 2 = 1}},
     black |-> {stack[i] : i \in {j \in 1..Len(stack) : j % 2 = 0}}]

\* The board after review_board.reset() and pushing review_moves[:index].
Replay(moves, index) == SubSeq(moves, 1, Min(index, Len(moves)))

\* The (evaluation, label, arrows, lines) tuple a review worker builds from
\* the engine's answer v for position fen with multipv lines; impact tells
\* whether the "Last move impact" line was added.
AnalysisTuple(fen, multipv, v, impact) ==
    [evaluation |-> v,
     label      |-> v,
     arrows     |-> <<fen, multipv, v>>,
     lines      |-> <<fen, multipv, v, impact>>]

NoResult == [evaluation |-> 0, label |-> 0, arrows |-> <<>>, lines |-> <<>>]
NoKey == <<>>

\* A dict is the sequence of its items, in the order the keys were first
\* inserted; assigning to a key it holds replaces the value in place.
DictKeys(d) == {d[i].key : i \in 1..Len(d)}
DictGet(d, k) == d[CHOOSE i \in 1..Len(d) : d[i].key = k].val
DictSet(d, k, v) ==
    IF k \in DictKeys(d)
    THEN [i \in 1..Len(d) |-> IF d[i].key = k THEN [key |-> k, val |-> v]
                               ELSE d[i]]
    ELSE Append(d, [key |-> k, val |-> v])
DictPop(d, k) ==
    LET Other(e) == e.key # k IN SelectSeq(d, Other)

\* ---------------------------------------------------------------- state
VARIABLES
    engine,                   \* self.engine is not None
    engine_lock,              \* 0 when free, else the id of the holding thread
    review_mode,
    review_window,            \* the review window exists
    review_board,             \* None or Some(move stack)
    review_moves,
    review_move_index,
    review_engine_token,
    _review_after_id,         \* 0 for None, else the id of the armed timer
    _review_slider_dragging,
    review_best_only_var,
    multipv_count,
    time_var,
    top_move_arrows,
    review_eval_value_label,  \* None or Some(text of the label)
    review_engine_info_var,   \* None or Some(text)
    review_analysis_text,     \* None or Some(content of the commentary box)
    review_analysis_cache,    \* dict: key -> tuple
    _review_cache_order,      \* list of keys
    reviewTimers,             \* Tk timers armed by root.after(160, _do)
    uiQueue,                  \* callbacks queued by root.after(0, ...)
    threads,                  \* background threads
    uiPc,                     \* what the event-loop thread is doing
    sliderHeld,               \* the mouse button is down on the slider
    board,                    \* move stack of the main board
    move_history,
    ai_thinking,
    player_color,             \* "white" or "black"
    show_hint,
    hint_move,                \* None or Some(hint)
    live_eval_var,
    eval_pause_on_ai,
    _eval_after_id,           \* 0 for None, else the id of the armed timer
    evalTimers,               \* Tk timers armed by schedule_evaluation
    scope,                    \* what this behaviour explores; never changes
    uiStep,                   \* progress of the handler the event loop is in
    nav,                      \* bookkeeping of navigation bursts
    reqLog,                   \* per dispatched token: what became of it
    lastExit,                 \* the token when exit_review_mode last ran
    servedView                \* the view a request was last served for from
                              \* the cache, None once a request is dispatched

uiVisible == <<top_move_arrows, review_eval_value_label,
               review_engine_info_var, review_analysis_text>>

cacheVars == <<review_analysis_cache, _review_cache_order>>

logVars == <<reqLog, lastExit, servedView>>

gameVars == <<board, move_history, ai_thinking, player_color, show_hint,
              hint_move>>

evalVars == <<_eval_after_id, evalTimers>>

settingVars == <<multipv_count, time_var, live_eval_var, eval_pause_on_ai>>

vars == <<engine, engine_lock, review_mode, review_window, review_board,
          review_moves, review_move_index, review_engine_token,
          _review_after_id, _review_slider_dragging, review_best_only_var,
          multipv_count, time_var, top_move_arrows, review_eval_value_label,
          review_engine_info_var, review_analysis_text,
          review_analysis_cache, _review_cache_order, reviewTimers, uiQueue,
          threads, uiPc, sliderHeld, board, move_history, ai_thinking,
          player_color, show_hint, hint_move, live_eval_var, eval_pause_on_ai,
          _eval_after_id, evalTimers, scope, uiStep, nav, reqLog, lastExit,
          servedView>>


UiIdle == uiPc = "idle"

\* The process lives until cleanup ends and root.destroy() stops the event
\* loop; the daemon threads die with it.
Running == uiPc # "closed"

\* ------------------------------------------------- navigation bookkeeping
\* nav records, for behaviours that measure time (scope.clock): whether the
\* last handler noted was a review_jump_to call (navSeen), how long ago it
\* was (sinceNav), how many calls of _request_review_engine_analysis were
\* made since (reqSinceNav), how many calls the present burst of calls less
\* than the debounce delay apart counts (burst), whether each of them moved
\* the cursor and rescheduled (allMoved), and whether the handler just run
\* was a slider release that ended a drag with navigation in it (released).
\* The program never reads it.
NavInit ==
    [navSeen |-> FALSE, sinceNav |-> DebounceTicks, reqSinceNav |-> 0,
     burst |-> 0, allMoved |-> TRUE, released |-> FALSE]

\* A review_jump_to call; moved: it changed the cursor and rescheduled.
NavNote(moved) ==
    nav' = IF ~scope.clock THEN nav
           ELSE LET going == nav.navSeen /\ nav.sinceNav < DebounceTicks
                IN [navSeen |-> TRUE, sinceNav |-> 0, reqSinceNav |-> 0,
                    burst |-> IF going THEN Min(2, nav.burst + 1) ELSE 1,
                    allMoved |-> moved /\ (going => nav.allMoved),
                    released |-> FALSE]

\* A _request_review_engine_analysis call.
RequestNote ==
    nav' = IF ~scope.clock THEN nav
           ELSE [nav EXCEPT !.reqSinceNav = Min(2, @ + 1),
                            !.released = FALSE]

\* Any other handler that schedules or cancels a request or moves the
\* cursor: the burst of navigation calls, if any, is over.
OtherNote(what) ==
    nav' = IF ~scope.clock THEN nav
           ELSE [navSeen |-> FALSE, sinceNav |-> DebounceTicks,
                 reqSinceNav |-> 0, burst |-> 0, allMoved |-> TRUE,
                 released |-> (what = "release" /\ nav.navSeen)]

\* ------------------------------------------------------------- Tk timers
\* root.after(self._review_debounce_ms, _do) arms a timer that may fire once
\* its delay has run out.
ArmDelay == IF scope.clock THEN DebounceTicks ELSE 0

TimerIds(timers) == {t.id : t \in timers}

\* The id root.after returns: one that no armed timer has.  (Tk numbers its
\* timers upwards; the program keeps no id of a timer that is gone, so which
\* unused id it gets makes no difference to it.)
FreshAfterId(timers) ==
    CHOOSE i \in 1..(Cardinality(timers) + 1) :
        /\ i \notin TimerIds(timers)
        /\ \A j \in 1..(i - 1) : j \in TimerIds(timers)

\* root.after_cancel(after_id)
AfterCancel_Forgotten(after_id, timers) == timers
AfterCancel(after_id, timers) == {t \in timers : t.id # after_id}

\* The guard of schedule_review_engine_analysis (its two early returns).
MaySchedule_IgnoreDrag(win, drag) == win
MaySchedule_IgnoreWindow(win, drag) == ~drag
MaySchedule(win, drag) == win /\ ~drag

\* schedule_review_engine_analysis, called with the review window existing
\* or not (win) and the slider held or not (drag).
schedule_review_engine_analysis(win, drag) ==
    IF ~MaySchedule(win, drag)
    THEN UNCHANGED <<_review_after_id, reviewTimers>>
    ELSE LET kept == IF _review_after_id # 0
                     THEN AfterCancel(_review_after_id, reviewTimers)
                     ELSE reviewTimers
             id == FreshAfterId(kept)
         IN /\ _review_after_id' = id
            /\ reviewTimers' = kept \cup {[id |-> id, left |-> ArmDelay]}

\* ------------------------------------------------------ review navigation
\* The board update_review_position rebuilds.
RebuiltBoard_OffByOne(moves, index) == Replay(moves, index - 1)
RebuiltBoard(moves, index) == Replay(moves, index)

\* update_review_position for the move list and cursor just set; hasBoard:
\* self.review_board is set, win: the window and its widgets exist.
update_review_position(hasBoard, moves, index, win, drag) ==
    IF ~hasBoard
    THEN UNCHANGED <<review_board, top_move_arrows, review_eval_value_label,
                     review_engine_info_var, _review_after_id, reviewTimers>>
    ELSE /\ review_board' = Some(RebuiltBoard(moves, index))
         /\ top_move_arrows' = <<>>
         /\ review_eval_value_label' =
                IF win THEN Some(<<"Evaluation: ...">>) ELSE None
         /\ review_engine_info_var' =
                IF win THEN Some(<<"Analyzing position...">>) ELSE None
         /\ schedule_review_engine_analysis(win, drag)

\* "clamped = max(0, min(index, len(self.review_moves)))"
Clamp_NoFloor(index, moves) == Min(index, Len(moves))
Clamp_NoCeiling(index, moves) == Max(0, index)
Clamp(index, moves) == Max(0, Min(index, Len(moves)))

\* review_jump_to moves the cursor: neither of its early returns is taken.
JumpMoves(index) ==
    /\ ~(review_moves = <<>> /\ index # 0)
    /\ Clamp(index, review_moves) # review_move_index

\* review_jump_to(index)
review_jump_to(index) ==
    /\ UiIdle
    /\ review_window
    /\ IF JumpMoves(index)
       THEN /\ review_move_index' = Clamp(index, review_moves)
            /\ update_review_position(review_board # None, review_moves,
                                      Clamp(index, review_moves),
                                      review_window, _review_slider_dragging)
       ELSE UNCHANGED <<review_move_index, review_board, top_move_arrows,
                        review_eval_value_label, review_engine_info_var,
                        _review_after_id, reviewTimers>>
    /\ NavNote(JumpMoves(index) /\ ~_review_slider_dragging)
    /\ UNCHANGED <<engine, engine_lock, review_mode, review_window,
                   review_moves, review_engine_token,
                   _review_slider_dragging, review_best_only_var,
                   review_analysis_text, cacheVars, uiQueue, threads, uiPc,
                   sliderHeld, gameVars, evalVars, settingVars, scope, uiStep,
                   logVars>>

\* review_step(delta): the Prev/Next buttons and the arrow keys.
review_step(delta) ==
    /\ review_moves # <<>>
    /\ review_jump_to(review_move_index + delta)

\* on_review_slider_move(value): the slider reports a new value.
on_review_slider_move(value) == review_jump_to(value)

\* on_review_table_click: a click on a cell of the move table.
on_review_table_click(move_no, column) ==
    /\ move_no \in 1..((Len(review_moves) + 1) \div 2)
    /\ review_jump_to((move_no - 1) * 2 + column)

\* _on_review_slider_press
_on_review_slider_press ==
    /\ UiIdle /\ review_window /\ ~sliderHeld
    /\ sliderHeld' = TRUE
    /\ _review_slider_dragging' = TRUE
    /\ IF _review_after_id # 0
       THEN /\ reviewTimers' = AfterCancel(_review_after_id, reviewTimers)
            /\ _review_after_id' = 0
       ELSE UNCHANGED <<reviewTimers, _review_after_id>>
    /\ OtherNote("press")
    /\ UNCHANGED <<engine, engine_lock, review_mode, review_window,
                   review_board, review_moves, review_move_index,
                   review_engine_token, review_best_only_var, uiVisible,
                   cacheVars, uiQueue, threads, uiPc, gameVars, evalVars,
                   settingVars, scope, uiStep, logVars>>

\* _on_review_slider_release
_on_review_slider_release ==
    /\ UiIdle /\ review_window /\ sliderHeld
    /\ sliderHeld' = FALSE
    /\ _review_slider_dragging' = FALSE
    /\ schedule_review_engine_analysis(review_window, FALSE)
    /\ OtherNote("release")
    /\ UNCHANGED <<engine, engine_lock, review_mode, review_window,
                   review_board, review_moves, review_move_index,
                   review_engine_token, review_best_only_var, uiVisible,
                   cacheVars, uiQueue, threads, uiPc, gameVars, evalVars,
                   settingVars, scope, uiStep, logVars>>

\* _toggle_best: the "Best line only" checkbox flips its variable and calls
\* schedule_review_engine_analysis.
\* _on_review_slider_release reaching the event loop after the review
\* window was left.
late_slider_release ==
    /\ UiIdle /\ ~review_window
    /\ _review_slider_dragging' = FALSE
    /\ schedule_review_engine_analysis(review_window, FALSE)
    /\ UNCHANGED <<engine, engine_lock, review_mode, review_window,
                   review_board, review_moves, review_move_index,
                   review_engine_token, review_best_only_var, uiVisible,
                   cacheVars, uiQueue, threads, uiPc, sliderHeld, gameVars,
                   evalVars, settingVars, scope, uiStep, nav, logVars>>

_toggle_best ==
    /\ UiIdle /\ review_window
    /\ review_best_only_var' = ~review_best_only_var
    /\ schedule_review_engine_analysis(review_window, _review_slider_dragging)
    /\ OtherNote("toggle")
    /\ UNCHANGED <<engine, engine_lock, review_mode, review_window,
                   review_board, review_moves, review_move_index,
                   review_engine_token, _review_slider_dragging, uiVisible,
                   cacheVars, uiQueue, threads, uiPc, sliderHeld, gameVars,
                   evalVars, settingVars, scope, uiStep, logVars>>


\* ------------------------------------------------------- live evaluation
FreshEvalId(timers) == FreshAfterId(timers)

\* schedule_evaluation, with ai_thinking and review_mode as the caller left
\* them.
schedule_evaluation(thinking, reviewing) ==
    IF ~live_eval_var \/ thinking \/ reviewing
    THEN UNCHANGED evalVars
    ELSE LET kept == IF _eval_after_id # 0
                     THEN AfterCancel(_eval_after_id, evalTimers)
                     ELSE evalTimers
             id == FreshEvalId(kept)
         IN /\ _eval_after_id' = id
            /\ evalTimers' = kept \cup {[id |-> id, left |-> 0]}

\* The tail of draw_board: the debounced evaluation request.
draw_board(thinking, reviewing) ==
    IF engine /\ ~thinking /\ ~reviewing
    THEN schedule_evaluation(thinking, reviewing)
    ELSE UNCHANGED evalVars

\* ------------------------------------------------ entering, leaving review
\* load_selected_review_game with PGN of game g selected, and the
\* open_review_window call that ends it.
load_selected_review_game(g) ==
    /\ UiIdle
    /\ review_mode' = TRUE
    /\ review_moves' = g
    /\ review_move_index' = 0
    /\ IF g = <<>>
       THEN \* open_review_window: "Load or fetch a game" and return
            /\ review_board' = Some(<<>>)
            /\ UNCHANGED <<review_window, top_move_arrows,
                           review_eval_value_label, review_engine_info_var,
                           review_analysis_text, _review_after_id,
                           reviewTimers>>
       ELSE IF review_window
       THEN \* the window is open already: update_review_position
            /\ update_review_position(TRUE, g, 0, TRUE,
                                      _review_slider_dragging)
            /\ UNCHANGED <<review_window, review_analysis_text>>
       ELSE \* build the window, then update_review_position
            /\ review_window' = TRUE
            /\ review_analysis_text' = Some(<<"">>)
            /\ update_review_position(TRUE, g, 0, TRUE,
                                      _review_slider_dragging)
    /\ OtherNote("session")
    /\ UNCHANGED <<engine, engine_lock, review_engine_token,
                   _review_slider_dragging, review_best_only_var, cacheVars,
                   uiQueue, threads, uiPc, sliderHeld, gameVars, evalVars,
                   settingVars, scope, uiStep, logVars>>

\* The token after exit_review_mode.
TokenAfterExit_Kept(token) == token
TokenAfterExit(token) == token + 1

\* exit_review_mode: the Exit Review button or closing the review window.
exit_review_mode ==
    /\ UiIdle /\ review_window
    /\ review_engine_token <= scope.tokens
    /\ review_mode' = FALSE
    /\ reviewTimers' = IF _review_after_id # 0
                       THEN AfterCancel(_review_after_id, reviewTimers)
                       ELSE reviewTimers
    /\ _review_after_id' = 0
    /\ _review_slider_dragging' = FALSE
    /\ sliderHeld' = FALSE
    /\ review_board' = None
    /\ review_moves' = <<>>
    /\ review_move_index' = 0
    /\ top_move_arrows' = <<>>
    /\ review_engine_token' = TokenAfterExit(review_engine_token)
    /\ review_window' = FALSE
    /\ review_analysis_text' = None
    /\ review_eval_value_label' = None
    /\ review_engine_info_var' = None
    /\ board' = <<>>
    /\ draw_board(ai_thinking, FALSE)
    /\ lastExit' = review_engine_token
    /\ servedView' = None
    /\ OtherNote("session")
    /\ UNCHANGED <<engine, engine_lock, review_best_only_var, cacheVars,
                   uiQueue, threads, uiPc, move_history, ai_thinking,
                   player_color, show_hint, hint_move, settingVars, scope, uiStep,
                   reqLog>>

\* ------------------------------------------------- applying a result
\* The guard of _apply_review_engine_result and _apply_review_engine_error,
\* negated: the result is for the live token and cursor.
ResultIsCurrent_TokenOnly(token, ply_index) == token = review_engine_token
ResultIsCurrent(token, ply_index) ==
    token = review_engine_token /\ ply_index = review_move_index

\* _apply_review_engine_result(token, ply_index, evaluation, label, arrows,
\* lines), the four results passed as the tuple res.
_apply_review_engine_result(token, ply_index, res) ==
    IF ~ResultIsCurrent(token, ply_index)
    THEN UNCHANGED uiVisible
    ELSE /\ top_move_arrows' = res.arrows
         /\ review_eval_value_label' =
                IF review_eval_value_label # None
                THEN Some(<<"Evaluation:", res.label>>) ELSE None
         /\ review_analysis_text' =
                IF review_analysis_text # None
                THEN Some(<<"lines", res.lines>>) ELSE None
         /\ review_engine_info_var' =
                IF review_engine_info_var # None
                THEN Some(<<"Suggestions updated.">>) ELSE None

\* _apply_review_engine_error(token, ply_index, message)
_apply_review_engine_error(token, ply_index) ==
    IF ~ResultIsCurrent(token, ply_index)
    THEN UNCHANGED uiVisible
    ELSE /\ top_move_arrows' = <<>>
         /\ review_eval_value_label' =
                IF review_eval_value_label # None
                THEN Some(<<"Evaluation: engine error">>) ELSE None
         /\ review_analysis_text' =
                IF review_analysis_text # None
                THEN Some(<<"Engine error">>) ELSE None
         /\ review_engine_info_var' =
                IF review_engine_info_var # None
                THEN Some(<<"Engine error.">>) ELSE None


\* ------------------------------------------------------ threads, callbacks
ThreadIds(ths) == {t.id : t \in ths}

FreshThreadId == CHOOSE i \in 1..MaxThreads :
                    /\ i \notin ThreadIds(threads)
                    /\ \A j \in 1..(i - 1) : j \in ThreadIds(threads)

\* A thread just started by threading.Thread(target=...).start().
NewThread(kind) ==
    [id |-> FreshThreadId, kind |-> kind, pc |-> "start", token |-> 0,
     ply |-> 0, fen |-> Fen(<<>>), multipv |-> 0, quick |-> FALSE, v |-> 0,
     impact |-> FALSE, old |-> NoKey, left |-> 0, pos |-> <<>>]

\* A callback handed to root.after(0, ...).
Callback(kind, token, ply, res) ==
    [kind |-> kind, token |-> token, ply |-> ply, res |-> res, arg |-> 0,
     pos |-> <<>>]

\* A callback of the main window, with its argument.
PlainCallback(kind, arg) ==
    [kind |-> kind, token |-> 0, ply |-> 0, res |-> NoResult, arg |-> arg,
     pos |-> <<>>]

\* The callback of ai_move, "lambda m=move: self.apply_ai_move(m)".  The
\* program hands over the move alone; pos records the position the engine
\* was given, which the program never reads.
MoveCallback(kind, arg, pos) ==
    [kind |-> kind, token |-> 0, ply |-> 0, res |-> NoResult, arg |-> arg,
     pos |-> pos]

Step(t, u) == threads' = (threads \ {t}) \cup {u}

\* ------------------------------------- _request_review_engine_analysis
\* think_time, in milliseconds.
ThinkTime(t) == (Max(150, Min(t, 2000)) * 6) \div 10

\* The multipv the request asks for.
RequestMultiPV == IF review_best_only_var THEN 1 ELSE Max(1, multipv_count)

\* The cache key of the request.
CacheKey_FenOnly(fen, multipv) == <<fen, 0>>
CacheKey(fen, multipv) == <<fen, multipv>>

\* self.review_analysis_cache.get(cache_key) is not None
Cached_Never(key) == FALSE
Cached(key) == key \in DictKeys(review_analysis_cache)

\* "if not self.engine or not self.review_board"
EngineUnavailable_BoardOnly(eng, brd) == brd = None
EngineUnavailable(eng, brd) == ~eng \/ brd = None

\* "self.review_engine_token += 1; token = self.review_engine_token"
NextToken_Same(token) == token
NextToken(token) == token + 1

\* _request_review_engine_analysis, as called by the debounce timer.
_request_review_engine_analysis ==
    IF ~review_window
    THEN UNCHANGED <<uiVisible, review_engine_token, threads, reqLog,
                     servedView>>
    ELSE IF EngineUnavailable(engine, review_board)
    THEN /\ review_engine_info_var' =
                IF review_engine_info_var # None
                THEN Some(<<"Engine not available.">>) ELSE None
         /\ UNCHANGED <<top_move_arrows, review_eval_value_label,
                        review_analysis_text, review_engine_token, threads,
                        reqLog, servedView>>
    ELSE LET fen_snapshot == Fen(review_board[1])
             ply_snapshot == review_move_index
             multipv == RequestMultiPV
             cache_key == CacheKey(fen_snapshot, multipv)
         IN IF Cached(cache_key)
            THEN /\ _apply_review_engine_result(
                        review_engine_token, ply_snapshot,
                        DictGet(review_analysis_cache, cache_key))
                 /\ servedView' =
                        Some(<<ply_snapshot, fen_snapshot, multipv>>)
                 /\ UNCHANGED <<review_engine_token, threads, reqLog>>
            ELSE /\ review_engine_token < scope.tokens
                 /\ Cardinality(threads) < scope.threads
                 /\ review_engine_token' = NextToken(review_engine_token)
                 /\ threads' = threads \cup
                        {[NewThread("review") EXCEPT
                            !.token = NextToken(review_engine_token),
                            !.ply = ply_snapshot,
                            !.fen = fen_snapshot,
                            !.multipv = multipv,
                            !.quick = ThinkTime(time_var) < 350]}
                 /\ reqLog' = (NextToken(review_engine_token) :> "dispatched")
                                    @@ reqLog
                 /\ servedView' = None
                 /\ UNCHANGED uiVisible

\* _do: the debounce timer t fires.
ReviewTimerFire(t) ==
    /\ UiIdle
    /\ t \in reviewTimers /\ t.left = 0
    /\ reviewTimers' = reviewTimers \ {t}
    /\ _review_after_id' = 0
    /\ _request_review_engine_analysis
    /\ UNCHANGED lastExit
    /\ RequestNote
    /\ UNCHANGED <<engine, engine_lock, review_mode, review_window,
                   review_board, review_moves, review_move_index,
                   _review_slider_dragging, review_best_only_var, cacheVars,
                   uiQueue, uiPc, sliderHeld, gameVars, evalVars,
                   settingVars, scope, uiStep>>

\* The event loop runs the review callback at the head of the queue.
DeliverReview ==
    /\ UiIdle
    /\ uiQueue # <<>>
    /\ Head(uiQueue).kind \in {"result", "error"}
    /\ LET cb == Head(uiQueue)
       IN /\ IF cb.kind = "result"
             THEN _apply_review_engine_result(cb.token, cb.ply, cb.res)
             ELSE _apply_review_engine_error(cb.token, cb.ply)
          /\ reqLog' = [reqLog EXCEPT ![cb.token] =
                            IF @ # "dispatched" THEN "twice"
                            ELSE IF ResultIsCurrent(cb.token, cb.ply)
                            THEN "accepted"
                            ELSE IF cb.token <= lastExit THEN "orphaned"
                            ELSE "discarded"]
    /\ uiQueue' = Tail(uiQueue)
    /\ UNCHANGED <<lastExit, servedView>>
    /\ UNCHANGED <<engine, engine_lock, review_mode, review_window,
                   review_board, review_moves, review_move_index,
                   review_engine_token, _review_after_id,
                   _review_slider_dragging, review_best_only_var, cacheVars,
                   reviewTimers, threads, uiPc, sliderHeld, gameVars,
                   evalVars, settingVars, scope, uiStep, nav>>

\* ------------------------------------------------------------ engine lock
\* "with self.engine_lock:" may enter.
LockFree_Always == TRUE
LockFree == engine_lock = 0

workerFrame == <<engine, review_mode, review_window, review_board,
                 review_moves, review_move_index, review_engine_token,
                 _review_after_id, _review_slider_dragging,
                 review_best_only_var, uiVisible, reviewTimers, uiPc,
                 sliderHeld, gameVars, evalVars, settingVars, scope, uiStep, nav,
                 logVars>>

\* ------------------------------------------------------- the review worker
\* worker(): "with self.engine_lock:" is entered and engine.analyse called,
\* for the main analysis and for the two of the last-move classification.
WorkerAcquire(t) ==
    /\ Running
    /\ t \in threads /\ t.kind = "review"
    /\ t.pc \in {"start", "pre_wait", "post_wait"}
    /\ LockFree
    /\ engine_lock' = t.id
    /\ Step(t, [t EXCEPT !.pc = CASE t.pc = "start" -> "analyse"
                                  [] t.pc = "pre_wait" -> "pre_call"
                                  [] t.pc = "post_wait" -> "post_call"])
    /\ UNCHANGED <<workerFrame, cacheVars, uiQueue>>

\* engine.analyse returns answer v; the lock is released.
WorkerAnalysed(t, v) ==
    /\ Running
    /\ t \in threads /\ t.kind = "review" /\ t.pc = "analyse"
    /\ engine_lock' = 0
    /\ Step(t, [t EXCEPT !.v = v,
                         !.pc = IF t.quick THEN "store" ELSE "classify"])
    /\ UNCHANGED <<workerFrame, cacheVars, uiQueue>>

\* engine.analyse raises; the lock is released on the way out.
WorkerFailed_Silent(t) ==
    /\ Running
    /\ t \in threads /\ t.kind = "review" /\ t.pc = "analyse"
    /\ engine_lock' = 0
    /\ threads' = threads \ {t}
    /\ UNCHANGED <<workerFrame, cacheVars, uiQueue>>

WorkerFailed(t) ==
    /\ Running
    /\ t \in threads /\ t.kind = "review" /\ t.pc = "analyse"
    /\ engine_lock' = 0
    /\ Step(t, [t EXCEPT !.pc = "post_error"])
    /\ UNCHANGED <<workerFrame, cacheVars, uiQueue>>

\* "last_move = self.review_moves[ply_snapshot - 1] if ply_snapshot > 0":
\* with no last move, or an IndexError, the classification is skipped.
WorkerClassify(t) ==
    /\ Running
    /\ t \in threads /\ t.kind = "review" /\ t.pc = "classify"
    /\ Step(t, [t EXCEPT !.pc = IF t.ply > 0 /\ Len(review_moves) >= t.ply
                                THEN "pre_wait" ELSE "store"])
    /\ UNCHANGED <<workerFrame, engine_lock, cacheVars, uiQueue>>

\* A classification call returns (ok) or raises; "except Exception: pass".
WorkerClassified(t, ok) ==
    /\ Running
    /\ t \in threads /\ t.kind = "review"
    /\ t.pc \in {"pre_call", "post_call"}
    /\ engine_lock' = 0
    /\ Step(t, IF ~ok THEN [t EXCEPT !.pc = "store"]
               ELSE IF t.pc = "pre_call" THEN [t EXCEPT !.pc = "post_wait"]
               ELSE [t EXCEPT !.pc = "store", !.impact = TRUE])
    /\ UNCHANGED <<workerFrame, cacheVars, uiQueue>>

\* self.review_analysis_cache[cache_key] = (evaluation, label, arrows, lines)
WorkerStore(t) ==
    /\ Running
    /\ t \in threads /\ t.kind = "review" /\ t.pc = "store"
    /\ review_analysis_cache' =
            DictSet(review_analysis_cache, CacheKey(t.fen, t.multipv),
                    AnalysisTuple(t.fen, t.multipv, t.v, t.impact))
    /\ Step(t, [t EXCEPT !.pc = "append"])
    /\ UNCHANGED <<workerFrame, engine_lock, _review_cache_order, uiQueue>>

\* self._review_cache_order.append(cache_key)
WorkerAppend(t) ==
    /\ Running
    /\ t \in threads /\ t.kind = "review" /\ t.pc = "append"
    /\ _review_cache_order' =
            Append(_review_cache_order, CacheKey(t.fen, t.multipv))
    /\ Step(t, [t EXCEPT !.pc = "check"])
    /\ UNCHANGED <<workerFrame, engine_lock, review_analysis_cache, uiQueue>>

\* self._review_cache_max
review_cache_max == scope.capacity

\* if len(self._review_cache_order) > self._review_cache_max
CacheFull(order) == Len(order) > review_cache_max

WorkerCheck(t) ==
    /\ Running
    /\ t \in threads /\ t.kind = "review" /\ t.pc = "check"
    /\ Step(t, [t EXCEPT !.pc = IF CacheFull(_review_cache_order)
                                THEN "pop_order" ELSE "post"])
    /\ UNCHANGED <<workerFrame, engine_lock, cacheVars, uiQueue>>

\* The key self._review_cache_order.pop(0) removes and returns.
EvictedKey(order) == Head(order)

RemoveKey(order, key) ==
    IF key = Head(order) THEN Tail(order)
    ELSE SubSeq(order, 1, Len(order) - 1)

\* old_key = self._review_cache_order.pop(0)
WorkerPopOrder(t) ==
    /\ Running
    /\ t \in threads /\ t.kind = "review" /\ t.pc = "pop_order"
    /\ _review_cache_order # <<>>
    /\ LET old_key == EvictedKey(_review_cache_order)
       IN /\ _review_cache_order' = RemoveKey(_review_cache_order, old_key)
          /\ Step(t, [t EXCEPT !.old = old_key, !.pc = "pop_cache"])
    /\ UNCHANGED <<workerFrame, engine_lock, review_analysis_cache, uiQueue>>

\* self.review_analysis_cache.pop(old_key, None)
WorkerPopCache(t) ==
    /\ Running
    /\ t \in threads /\ t.kind = "review" /\ t.pc = "pop_cache"
    /\ review_analysis_cache' = DictPop(review_analysis_cache, t.old)
    /\ Step(t, [t EXCEPT !.pc = "post"])
    /\ UNCHANGED <<workerFrame, engine_lock, _review_cache_order, uiQueue>>

\* self.root.after(0, lambda: self._apply_review_engine_result(...)) or
\* ..._apply_review_engine_error(...); the thread ends.
WorkerPost_AlwaysResult(t) ==
    /\ Running
    /\ t \in threads /\ t.kind = "review"
    /\ t.pc \in {"post", "post_error"}
    /\ Len(uiQueue) < scope.queue
    /\ uiQueue' = Append(uiQueue,
            Callback("result", t.token, t.ply,
                     AnalysisTuple(t.fen, t.multipv, t.v, t.impact)))
    /\ threads' = threads \ {t}
    /\ UNCHANGED <<workerFrame, engine_lock, cacheVars>>

WorkerPost(t) ==
    /\ Running
    /\ t \in threads /\ t.kind = "review"
    /\ t.pc \in {"post", "post_error"}
    /\ Len(uiQueue) < scope.queue
    /\ uiQueue' = Append(uiQueue,
            IF t.pc = "post"
            THEN Callback("result", t.token, t.ply,
                          AnalysisTuple(t.fen, t.multipv, t.v, t.impact))
            ELSE Callback("error", t.token, t.ply, NoResult))
    /\ threads' = threads \ {t}
    /\ UNCHANGED <<workerFrame, engine_lock, cacheVars>>

\* ------------------------------------------------ the other engine users
auxFrame == <<engine, review_mode, review_window, review_board, review_moves,
              review_move_index, review_engine_token, _review_after_id,
              _review_slider_dragging, review_best_only_var, reviewTimers,
              uiPc, sliderHeld, settingVars, scope, uiStep, nav, logVars,
              cacheVars>>

Turn(stack) == IF Len(stack) % 2 = 0 THEN "white" ELSE "black"

\* toggle_hint: the Hint button.
toggle_hint ==
    /\ UiIdle
    /\ IF ~engine \/ ai_thinking
       THEN UNCHANGED <<show_hint, hint_move, threads, evalVars>>
       ELSE /\ show_hint' = ~show_hint
            /\ IF ~show_hint
               THEN /\ Cardinality(threads) < scope.threads
                    /\ threads' = threads \cup {NewThread("hint")}
                    /\ UNCHANGED <<hint_move, evalVars>>
               ELSE /\ hint_move' = None
                    /\ draw_board(ai_thinking, review_mode)
                    /\ UNCHANGED threads
    /\ UNCHANGED <<auxFrame, engine_lock, uiVisible, uiQueue, board,
                   move_history, ai_thinking, player_color>>

\* calculate_hint: the two early returns.
HintStart(t) ==
    /\ Running
    /\ t \in threads /\ t.kind = "hint" /\ t.pc = "start"
    /\ IF ~engine \/ review_mode \/ ai_thinking
       THEN threads' = threads \ {t}
       ELSE Step(t, [t EXCEPT !.pc = "wait"])
    /\ UNCHANGED <<auxFrame, engine_lock, uiVisible, uiQueue, gameVars,
                   evalVars>>

\* analyze_full_game: the Run Full Analysis button of the review window.
analyze_full_game ==
    /\ UiIdle /\ review_window
    /\ IF ~engine
       THEN UNCHANGED <<review_analysis_text, threads>>
       ELSE /\ Cardinality(threads) < scope.threads
            /\ review_analysis_text' = Some(<<"Analyzing game...">>)
            /\ threads' = threads \cup {NewThread("full")}
    /\ UNCHANGED <<auxFrame, engine_lock, top_move_arrows,
                   review_eval_value_label, review_engine_info_var, uiQueue,
                   gameVars, evalVars>>

\* analyze(): "total_moves = len(self.review_moves)" and the start of the
\* loop over the moves; two engine calls are made for each move.
FullStart(t) ==
    /\ Running
    /\ t \in threads /\ t.kind = "full" /\ t.pc = "start"
    /\ Step(t, [t EXCEPT !.left = 2 * Len(review_moves),
                         !.pc = IF review_moves = <<>> THEN "post_clear"
                                ELSE "post_progress"])
    /\ UNCHANGED <<auxFrame, engine_lock, uiVisible, uiQueue, gameVars,
                   evalVars>>

\* analyze(): one of its root.after(0, ...) calls.
FullPost(t) ==
    /\ Running
    /\ t \in threads /\ t.kind = "full"
    /\ t.pc \in {"post_progress", "post_clear", "post_text", "post_error"}
    /\ Len(uiQueue) < scope.queue
    /\ uiQueue' = Append(uiQueue, PlainCallback(
            CASE t.pc = "post_progress" -> "full_progress"
              [] t.pc = "post_clear" -> "full_clear"
              [] t.pc = "post_text" -> "full_text"
              [] t.pc = "post_error" -> "full_error", 0))
    /\ IF t.pc = "post_progress" THEN Step(t, [t EXCEPT !.pc = "wait"])
       ELSE IF t.pc = "post_clear" THEN Step(t, [t EXCEPT !.pc = "post_text"])
       ELSE threads' = threads \ {t}
    /\ UNCHANGED <<auxFrame, engine_lock, uiVisible, gameVars, evalVars>>

\* "with self.engine_lock:" is entered by calculate_hint,
\* get_position_evaluation, ai_move or analyze_full_game, and engine.play or
\* engine.analyse called on the board as it is now.
AuxAcquire(t) ==
    /\ Running
    /\ t \in threads /\ t.kind \in {"hint", "eval", "ai", "full"}
    /\ t.pc = "wait"
    /\ LockFree
    /\ engine_lock' = t.id
    /\ Step(t, [t EXCEPT !.pc = "call", !.pos = board])
    /\ UNCHANGED <<auxFrame, uiVisible, uiQueue, gameVars, evalVars>>

\* The engine call of thread t returns move or answer m (0: no move), or
\* raises (ok is false); the lock is released.
AuxReturned(t, m, ok) ==
    /\ Running
    /\ t \in threads /\ t.kind \in {"hint", "eval", "ai", "full"}
    /\ t.pc = "call"
    /\ engine_lock' = 0
    /\ CASE t.kind = "hint" ->
              IF ok THEN Step(t, [t EXCEPT !.v = m, !.pc = "set_hint"])
              ELSE threads' = threads \ {t}
         [] t.kind = "eval" ->
              Step(t, [t EXCEPT !.v = IF ok THEN m ELSE 0, !.pc = "post"])
         [] t.kind = "ai" ->
              Step(t, [t EXCEPT !.v = IF ok THEN m ELSE 0,
                                !.pc = IF ok THEN "post" ELSE "post_fail"])
         [] t.kind = "full" ->
              Step(t, [t EXCEPT !.left = @ - 1,
                                !.pc = IF ~ok THEN "post_error"
                                       ELSE IF t.left = 1 THEN "post_clear"
                                       ELSE IF t.left % 2 = 0 THEN "wait"
                                       ELSE "post_progress"])
    /\ UNCHANGED <<auxFrame, uiVisible, uiQueue, gameVars, evalVars>>

\* calculate_hint: "self.hint_move = result.move if result else None"
HintSet(t) ==
    /\ Running
    /\ t \in threads /\ t.kind = "hint" /\ t.pc = "set_hint"
    /\ hint_move' = IF t.v = 0 THEN None
                    ELSE Some([move |-> t.v, pos |-> t.pos])
    /\ Step(t, [t EXCEPT !.pc = "post"])
    /\ UNCHANGED <<auxFrame, engine_lock, uiVisible, uiQueue, board,
                   move_history, ai_thinking, player_color, show_hint,
                   evalVars>>

\* The root.after(0, ...) that ends calculate_hint, analyze() of
\* analyze_current_position, and ai_move.
AuxPost(t) ==
    /\ Running
    /\ t \in threads /\ t.kind \in {"hint", "eval", "ai"}
    /\ t.pc \in {"post", "post_fail"}
    /\ Len(uiQueue) < scope.queue
    /\ uiQueue' = Append(uiQueue,
            CASE t.kind = "hint" -> PlainCallback("draw_board", 0)
              [] t.kind = "eval" -> PlainCallback("draw_evaluation_bar", t.v)
              [] t.kind = "ai" ->
                    IF t.pc = "post"
                    THEN MoveCallback("apply_ai_move", t.v, t.pos)
                    ELSE PlainCallback("_handle_engine_failure", 0))
    /\ threads' = threads \ {t}
    /\ UNCHANGED <<auxFrame, engine_lock, uiVisible, gameVars, evalVars>>

\* _run: the evaluation timer fires and calls analyze_current_position.
EvalTimerFire(t) ==
    /\ UiIdle
    /\ t \in evalTimers
    /\ evalTimers' = evalTimers \ {t}
    /\ _eval_after_id' = 0
    /\ IF ~engine \/ (eval_pause_on_ai /\ ai_thinking)
       THEN UNCHANGED threads
       ELSE /\ Cardinality(threads) < scope.threads
            /\ threads' = threads \cup {NewThread("eval")}
    /\ UNCHANGED <<auxFrame, engine_lock, uiVisible, uiQueue, gameVars>>

\* analyze(): get_position_evaluation finds the engine loaded.
EvalStart(t) ==
    /\ Running
    /\ t \in threads /\ t.kind = "eval" /\ t.pc = "start"
    /\ Step(t, [t EXCEPT !.pc = "wait"])
    /\ UNCHANGED <<auxFrame, engine_lock, uiVisible, uiQueue, gameVars,
                   evalVars>>

\* on_square_click completes a move, and _apply_player_move plays it; over:
\* check_game_over finds the game finished.
on_square_click(move, over) ==
    /\ UiIdle
    /\ ~review_mode /\ ~ai_thinking
    /\ Turn(board) = player_color
    /\ Len(board) + 2 <= scope.plies
    /\ board' = Append(board, move)
    /\ move_history' = Append(move_history, move)
    /\ hint_move' = None
    /\ show_hint' = FALSE
    /\ IF over
       THEN /\ ai_thinking' = FALSE
            /\ draw_board(FALSE, review_mode)
            /\ UNCHANGED threads
       ELSE IF engine
       THEN /\ Cardinality(threads) < scope.threads
            /\ ai_thinking' = TRUE
            /\ draw_board(TRUE, review_mode)
            /\ threads' = threads \cup {[NewThread("ai") EXCEPT !.pc = "wait"]}
       ELSE /\ ai_thinking' = FALSE
            /\ draw_board(FALSE, review_mode)
            /\ UNCHANGED threads
    /\ UNCHANGED <<auxFrame, engine_lock, uiVisible, uiQueue, player_color>>

\* board.push(move) of apply_ai_move with a move the engine chose for the
\* position pos.  chess.Board.push does not check its argument; it needs a
\* piece on the square the move starts from.  The piece is there when the
\* board is at pos, and when only the player's last move was taken back;
\* on any other board the square may be empty, and push then raises.
PosBefore(pos) == IF pos = <<>> THEN pos ELSE SubSeq(pos, 1, Len(pos) - 1)

PushMayRaise(stack, pos) == stack # pos /\ stack # PosBefore(pos)

\* apply_ai_move(move); move 0 is None.  raises: board.push raises, and the
\* callback ends there.
apply_ai_move(move, raises) ==
    IF move = 0
    THEN /\ ai_thinking' = FALSE
         /\ UNCHANGED <<board, move_history, player_color, show_hint,
                        hint_move, evalVars>>
    ELSE IF raises
    THEN UNCHANGED <<gameVars, evalVars>>
    ELSE /\ Len(board) < scope.plies
         /\ board' = Append(board, move)
         /\ move_history' = Append(move_history, move)
         /\ ai_thinking' = FALSE
         /\ hint_move' = None
         /\ show_hint' = FALSE
         /\ draw_board(FALSE, review_mode)
         /\ UNCHANGED player_color

\* list.pop() of the last element, where there is one.
PopLast(stack) == IF stack = <<>> THEN stack ELSE SubSeq(stack, 1, Len(stack) - 1)

\* undo_move: the Undo Move button.  The player's move is taken back, and
\* the move before it too unless the engine is thinking.
undo_move ==
    /\ UiIdle
    /\ IF board = <<>>
       THEN UNCHANGED <<gameVars, evalVars>>
       ELSE LET second == Len(board) > 1 /\ ~ai_thinking
            IN /\ board' = IF second THEN PopLast(PopLast(board))
                           ELSE PopLast(board)
               /\ move_history' = IF second THEN PopLast(PopLast(move_history))
                                  ELSE PopLast(move_history)
               /\ hint_move' = None
               /\ show_hint' = FALSE
               /\ draw_board(ai_thinking, review_mode)
               /\ UNCHANGED <<ai_thinking, player_color>>
    /\ UNCHANGED <<auxFrame, engine_lock, uiVisible, uiQueue, threads>>

\* new_game: the New Game button; yes: the answer to "Start a new game?".
new_game(yes) ==
    /\ UiIdle
    /\ IF ~yes
       THEN UNCHANGED <<gameVars, evalVars, threads>>
       ELSE /\ board' = <<>>
            /\ move_history' = <<>>
            /\ hint_move' = None
            /\ show_hint' = FALSE
            /\ draw_board(FALSE, review_mode)
            /\ IF player_color = "black" /\ engine
               THEN /\ Cardinality(threads) < scope.threads
                    /\ ai_thinking' = TRUE
                    /\ threads' = threads \cup
                            {[NewThread("ai") EXCEPT !.pc = "wait"]}
               ELSE /\ ai_thinking' = FALSE
                    /\ UNCHANGED threads
            /\ UNCHANGED player_color
    /\ UNCHANGED <<auxFrame, engine_lock, uiVisible, uiQueue>>

\* The event loop runs a callback of the main window.
DeliverPlain ==
    /\ UiIdle
    /\ uiQueue # <<>>
    /\ Head(uiQueue).kind \notin {"result", "error"}
    /\ uiQueue' = Tail(uiQueue)
    /\ LET cb == Head(uiQueue)
       IN CASE cb.kind = "draw_board" ->
                 /\ draw_board(ai_thinking, review_mode)
                 /\ UNCHANGED <<gameVars, uiVisible>>
            [] cb.kind = "draw_evaluation_bar" ->
                 UNCHANGED <<gameVars, evalVars, uiVisible>>
            [] cb.kind = "apply_ai_move" ->
                 /\ \E raises \in {FALSE} \cup
                        {r \in {TRUE} : PushMayRaise(board, cb.pos)} :
                            apply_ai_move(cb.arg, raises)
                 /\ UNCHANGED uiVisible
            [] cb.kind = "_handle_engine_failure" ->
                 /\ ai_thinking' = FALSE
                 /\ UNCHANGED <<board, move_history, player_color, show_hint,
                                hint_move, evalVars, uiVisible>>
            [] OTHER ->
                 \* analyze_full_game writes to the commentary box
                 /\ review_analysis_text' =
                        IF review_analysis_text = None THEN None
                        ELSE Some(<<cb.kind>>)
                 /\ UNCHANGED <<gameVars, evalVars, top_move_arrows,
                                review_eval_value_label,
                                review_engine_info_var>>
    /\ UNCHANGED <<auxFrame, engine_lock, threads>>

\* save_and_close of the settings dialog, up to engine.configure: the
\* thinking time tv and the number of lines n are taken over.
save_and_close(tv, n) ==
    /\ UiIdle
    /\ time_var' = tv
    /\ multipv_count' = n
    /\ IF engine
       THEN uiPc' = "configure" /\ UNCHANGED evalVars
       ELSE uiPc' = "idle" /\ draw_board(ai_thinking, review_mode)
    /\ UNCHANGED <<engine, engine_lock, review_mode, review_window,
                   review_board, review_moves, review_move_index,
                   review_engine_token, _review_after_id,
                   _review_slider_dragging, review_best_only_var, uiVisible,
                   cacheVars, reviewTimers, uiQueue, threads, sliderHeld,
                   gameVars, live_eval_var, eval_pause_on_ai, scope, uiStep, nav,
                   logVars>>

\* save_and_close: engine.configure has returned; the board is redrawn.
save_and_close_done ==
    /\ uiPc = "configure"
    /\ uiPc' = "idle"
    /\ draw_board(ai_thinking, review_mode)
    /\ UNCHANGED <<engine, engine_lock, review_mode, review_window,
                   review_board, review_moves, review_move_index,
                   review_engine_token, _review_after_id,
                   _review_slider_dragging, review_best_only_var, uiVisible,
                   cacheVars, reviewTimers, uiQueue, threads, sliderHeld,
                   gameVars, settingVars, scope, uiStep, nav, logVars>>

\* cleanup, called when the main window is closed: engine.quit() is called
\* if an engine is loaded.
cleanup ==
    /\ UiIdle
    /\ uiPc' = IF engine THEN "quit" ELSE "closed"
    /\ UNCHANGED <<engine, engine_lock, review_mode, review_window,
                   review_board, review_moves, review_move_index,
                   review_engine_token, _review_after_id,
                   _review_slider_dragging, review_best_only_var, uiVisible,
                   cacheVars, reviewTimers, uiQueue, threads, sliderHeld,
                   gameVars, evalVars, settingVars, scope, uiStep, nav, logVars>>

\* cleanup: engine.quit() has returned; root.destroy() ends the program.
cleanup_done ==
    /\ uiPc = "quit"
    /\ uiPc' = "closed"
    /\ UNCHANGED <<engine, engine_lock, review_mode, review_window,
                   review_board, review_moves, review_move_index,
                   review_engine_token, _review_after_id,
                   _review_slider_dragging, review_best_only_var, uiVisible,
                   cacheVars, reviewTimers, uiQueue, threads, sliderHeld,
                   gameVars, evalVars, settingVars, scope, uiStep, nav, logVars>>

\* The threads that are inside engine.analyse or engine.play.
CallPcs == {"analyse", "pre_call", "post_call", "call"}
InEngineCall == {t \in threads : t.pc \in CallPcs}

\* --------------------------------------------------------------- the clock
Tick ==
    /\ scope.clock
    /\ \/ \E t \in reviewTimers : t.left > 0
       \/ nav.sinceNav < DebounceTicks
    /\ reviewTimers' = {[t EXCEPT !.left = Max(0, @ - 1)] : t \in reviewTimers}
    /\ nav' = [nav EXCEPT !.sinceNav = Min(DebounceTicks, @ + 1),
                          !.released = FALSE]
    /\ UNCHANGED <<engine, engine_lock, review_mode, review_window,
                   review_board, review_moves, review_move_index,
                   review_engine_token, _review_after_id,
                   _review_slider_dragging, review_best_only_var, uiVisible,
                   cacheVars, uiQueue, threads, uiPc, sliderHeld, gameVars,
                   evalVars, settingVars, scope, uiStep, logVars>>

\* ------------------------------------------- the Chessy variant, chessy.py
\* chessy.py (class Chessy) has the same board, move list, engine and
\* engine_lock, and no review session.  Its worker threads write the board
\* themselves; three of its buttons call the engine from their handlers.
chessyFrame == <<engine, review_mode, review_window, review_board,
                 review_moves, review_move_index, review_engine_token,
                 _review_after_id, _review_slider_dragging,
                 review_best_only_var, reviewTimers, sliderHeld, settingVars,
                 scope, nav, logVars, cacheVars, uiVisible, uiQueue,
                 evalVars>>

\* What engine_lock holds when the event-loop thread has it.
UiThreadId == -1

\* on_click completes a legal move of the side to move; over:
\* board.is_game_over() after it.
chessy_on_click(move, over) ==
    /\ UiIdle
    /\ Len(board) < MaxBoardLen
    /\ board' = Append(board, move)
    /\ move_history' = Append(move_history, move)
    /\ show_hint' = FALSE
    /\ hint_move' = None
    /\ IF Turn(Append(board, move)) # player_color /\ ~over
       THEN /\ Cardinality(threads) < scope.threads
            /\ threads' = threads \cup {NewThread("chessy_ai")}
       ELSE UNCHANGED threads
    /\ UNCHANGED <<chessyFrame, engine_lock, uiPc, uiStep, ai_thinking,
                   player_color>>

\* ai_move: the early return, or "self.ai_thinking = True".
chessy_ai_start(t, over) ==
    /\ Running
    /\ t \in threads /\ t.kind = "chessy_ai" /\ t.pc = "start"
    /\ IF ~engine \/ over
       THEN threads' = threads \ {t} /\ UNCHANGED ai_thinking
       ELSE ai_thinking' = TRUE /\ Step(t, [t EXCEPT !.pc = "wait"])
    /\ UNCHANGED <<chessyFrame, engine_lock, uiPc, uiStep, board,
                   move_history, player_color, show_hint, hint_move>>

\* toggle_hint
chessy_toggle_hint ==
    /\ UiIdle
    /\ IF ~engine
       THEN UNCHANGED <<show_hint, hint_move, threads>>
       ELSE /\ show_hint' = ~show_hint
            /\ IF ~show_hint
               THEN /\ Cardinality(threads) < scope.threads
                    /\ threads' = threads \cup {NewThread("chessy_hint")}
                    /\ UNCHANGED hint_move
               ELSE hint_move' = None /\ UNCHANGED threads
    /\ UNCHANGED <<chessyFrame, engine_lock, uiPc, uiStep, board,
                   move_history, ai_thinking, player_color>>

\* calculate_hint: the early return.
chessy_hint_start(t, over) ==
    /\ Running
    /\ t \in threads /\ t.kind = "chessy_hint" /\ t.pc = "start"
    /\ IF ~engine \/ over \/ ai_thinking
       THEN threads' = threads \ {t}
       ELSE Step(t, [t EXCEPT !.pc = "wait"])
    /\ UNCHANGED <<chessyFrame, engine_lock, uiPc, uiStep, gameVars>>

\* "with self.engine_lock:" is entered by ai_move or calculate_hint and
\* engine.play called on the board as it is.
chessy_acquire(t) ==
    /\ Running
    /\ t \in threads /\ t.kind \in {"chessy_ai", "chessy_hint"}
    /\ t.pc = "wait"
    /\ LockFree
    /\ engine_lock' = t.id
    /\ Step(t, [t EXCEPT !.pc = "call", !.pos = board])
    /\ UNCHANGED <<chessyFrame, uiPc, uiStep, gameVars>>

\* engine.play returns move m (0: none) or raises; the lock is released.
chessy_returned(t, m, ok) ==
    /\ Running
    /\ t \in threads /\ t.kind \in {"chessy_ai", "chessy_hint"}
    /\ t.pc = "call"
    /\ engine_lock' = 0
    /\ Step(t, [t EXCEPT !.v = m,
                         !.pc = IF t.kind = "chessy_hint"
                                THEN (IF ok THEN "set_hint" ELSE "done")
                                ELSE (IF ok /\ m # 0 THEN "push_board"
                                      ELSE "finally")])
    /\ UNCHANGED <<chessyFrame, uiPc, uiStep, gameVars>>

\* ai_move: "self.board.push(result.move)"
chessy_ai_push_board(t) ==
    /\ Running
    /\ t \in threads /\ t.kind = "chessy_ai" /\ t.pc = "push_board"
    /\ Len(board) < MaxBoardLen
    /\ board' = Append(board, t.v)
    /\ Step(t, [t EXCEPT !.pc = "push_history"])
    /\ UNCHANGED <<chessyFrame, engine_lock, uiPc, uiStep, move_history,
                   ai_thinking, player_color, show_hint, hint_move>>

\* ai_move: "self.move_history.append(result.move)"
chessy_ai_push_history(t) ==
    /\ Running
    /\ t \in threads /\ t.kind = "chessy_ai" /\ t.pc = "push_history"
    /\ move_history' = Append(move_history, t.v)
    /\ Step(t, [t EXCEPT !.pc = "finally"])
    /\ UNCHANGED <<chessyFrame, engine_lock, uiPc, uiStep, board,
                   ai_thinking, player_color, show_hint, hint_move>>

\* The end of ai_move ("finally: self.ai_thinking = False") and of
\* calculate_hint ("self.hint_move = result.move", or the except clause).
chessy_thread_end(t) ==
    /\ Running
    /\ t \in threads /\ t.kind \in {"chessy_ai", "chessy_hint"}
    /\ t.pc \in {"finally", "set_hint", "done"}
    /\ threads' = threads \ {t}
    /\ ai_thinking' = IF t.pc = "finally" THEN FALSE ELSE ai_thinking
    /\ hint_move' = IF t.pc # "set_hint" THEN hint_move
                    ELSE IF t.v = 0 THEN None
                    ELSE Some([move |-> t.v, pos |-> t.pos])
    /\ UNCHANGED <<chessyFrame, engine_lock, uiPc, uiStep, board,
                   move_history, player_color, show_hint>>

\* analyze_position, the Analyze button: up to "with self.engine_lock:".
chessy_analyze_position ==
    /\ UiIdle
    /\ IF ~engine
       THEN UNCHANGED <<uiPc, uiStep>>
       ELSE uiPc' = "analyze_wait" /\ uiStep' = 0
    /\ UNCHANGED <<chessyFrame, engine_lock, threads, gameVars>>

\* find_blunders, the Find Blunders button: up to the first
\* "with self.engine_lock:" of its loop over move_history.  uiStep counts
\* the calls of the loop: two for each move.
chessy_find_blunders ==
    /\ UiIdle
    /\ IF move_history = <<>> \/ ~engine
       THEN UNCHANGED <<uiPc, uiStep>>
       ELSE uiPc' = "blunders_wait" /\ uiStep' = 0
    /\ UNCHANGED <<chessyFrame, engine_lock, threads, gameVars>>

\* open_game_review, the Review button, calls generate_game_analysis, which
\* analyses the position before every second move; uiStep is the index of
\* the move the loop is at.
chessy_open_game_review ==
    /\ UiIdle
    /\ IF move_history # <<>> /\ engine /\ 1 < Len(move_history)
       THEN uiPc' = "review_wait" /\ uiStep' = 1
       ELSE UNCHANGED <<uiPc, uiStep>>
    /\ UNCHANGED <<chessyFrame, engine_lock, threads, gameVars>>

\* The event-loop thread stands at "with self.engine_lock:", or is inside
\* engine.analyse.
UiWaitPcs == {"analyze_wait", "blunders_wait", "review_wait"}
UiCallPcs == {"analyze_call", "blunders_call", "review_call"}

\* The handler enters "with self.engine_lock:" and calls engine.analyse.
chessy_ui_acquire ==
    /\ uiPc \in UiWaitPcs
    /\ LockFree
    /\ engine_lock' = UiThreadId
    /\ uiPc' = CASE uiPc = "analyze_wait" -> "analyze_call"
                 [] uiPc = "blunders_wait" -> "blunders_call"
                 [] uiPc = "review_wait" -> "review_call"
    /\ UNCHANGED <<chessyFrame, uiStep, threads, gameVars>>

\* engine.analyse returns to the handler (ok) or raises; the lock is
\* released, and the handler goes on to its next call or ends.
chessy_ui_returned(ok) ==
    /\ uiPc \in UiCallPcs
    /\ engine_lock' = 0
    /\ LET next == CASE uiPc = "analyze_call" -> 0
                     [] uiPc = "blunders_call" ->
                            IF ok THEN uiStep + 1
                            ELSE 2 * (uiStep \div 2) + 2
                     [] uiPc = "review_call" -> uiStep + 2
           more == CASE uiPc = "analyze_call" -> FALSE
                     [] uiPc = "blunders_call" ->
                            next \div 2 < Len(move_history)
                     [] uiPc = "review_call" -> next < Len(move_history)
       IN IF more
          THEN /\ uiStep' = next
               /\ uiPc' = IF uiPc = "blunders_call" THEN "blunders_wait"
                          ELSE "review_wait"
          ELSE uiStep' = 0 /\ uiPc' = "idle"
    /\ UNCHANGED <<chessyFrame, threads, gameVars>>

\* ------------------------------------------------------------ construction
\* __init__: no review, empty cache, token 0; load_stockfish found an engine
\* or not, and load_settings read the user's settings.
InitProgram ==
    /\ engine \in BOOLEAN
    /\ engine_lock = 0
    /\ review_mode = FALSE
    /\ review_window = FALSE
    /\ review_board = None
    /\ review_moves = <<>>
    /\ review_move_index = 0
    /\ review_engine_token = 0
    /\ _review_after_id = 0
    /\ _review_slider_dragging = FALSE
    /\ review_best_only_var = FALSE
    /\ multipv_count \in MultiPVChoices
    /\ time_var \in TimeChoices
    /\ top_move_arrows = <<>>
    /\ review_eval_value_label = None
    /\ review_engine_info_var = None
    /\ review_analysis_text = None
    /\ review_analysis_cache = <<>>
    /\ _review_cache_order = <<>>
    /\ reviewTimers = {}
    /\ uiQueue = <<>>
    /\ threads = {}
    /\ uiPc = "idle"
    /\ sliderHeld = FALSE
    /\ board = <<>>
    /\ move_history = <<>>
    /\ ai_thinking = FALSE
    /\ player_color = "white"
    /\ show_hint = FALSE
    /\ hint_move = None
    /\ live_eval_var \in BOOLEAN
    /\ eval_pause_on_ai = TRUE
    /\ _eval_after_id = 0
    /\ evalTimers = {}
    /\ nav = NavInit
    /\ reqLog = <<>>
    /\ lastExit = -1
    /\ servedView = None
    /\ uiStep = 0

\* --------------------------------------------------------- specifications
\* What the user does with the session, and what the event loop runs.
SessionUi ==
    \/ \E g \in scope.games : load_selected_review_game(g)
    \/ exit_review_mode
    \/ \E i \in {0, Len(review_moves)} : review_jump_to(i)
    \/ \E d \in {-1, 1} : review_step(d)
    \/ \E n \in 1..MaxPly, c \in 0..2 : on_review_table_click(n, c)
    \/ _toggle_best
    \/ \E t \in reviewTimers : ReviewTimerFire(t)
    \/ DeliverReview

\* What the user does with the slider.
SliderUi ==
    \/ \E x \in 0..Max(Len(review_moves), 1) : on_review_slider_move(x)
    \/ _on_review_slider_press
    \/ _on_review_slider_release

\* The steps of a review worker whose analysis is quick (think_time < 0.35).
QuickWorker ==
    \/ \E t \in threads : WorkerAcquire(t)
    \/ \E t \in threads, v \in scope.scores : WorkerAnalysed(t, v)
    \/ \E t \in threads : WorkerFailed(t)
    \/ \E t \in threads : WorkerStore(t)
    \/ \E t \in threads : WorkerAppend(t)
    \/ \E t \in threads : WorkerCheck(t)
    \/ \E t \in threads : WorkerPopOrder(t)
    \/ \E t \in threads : WorkerPopCache(t)
    \/ \E t \in threads : WorkerPost(t)

\* Spec: the review session.  Games are loaded and left, the cursor is moved
\* by buttons and table, requests are scheduled, dispatched, cached and
\* reconciled.  The thinking time makes every analysis quick.
Init ==
    /\ InitProgram
    /\ scope = ReviewScope
    /\ multipv_count = 3 /\ time_var = 300 /\ ~live_eval_var

Next == SessionUi \/ QuickWorker

Spec == Init /\ [][Next]_vars

\* FairSpec: sessions on one game with the engine loaded; the threads and
\* the event loop keep running.
FairScope == [ReviewScope EXCEPT !.games = {<<1>>}]

FairInit ==
    /\ InitProgram
    /\ scope = FairScope
    /\ engine
    /\ multipv_count = 3 /\ time_var = 300 /\ ~live_eval_var

FairSpec ==
    FairInit /\ [][Next]_vars /\ WF_vars(QuickWorker) /\ WF_vars(DeliverReview)

\* SpecTimed: one session in which the debounce delay is measured: a timer
\* fires once its 160 ms have passed, and the time since the last navigation
\* is kept.  The slider is used as well.
TimedScope ==
    [clock |-> TRUE, games |-> {<<1, 2>>}, scores |-> {1},
     tokens |-> TimedTokens, threads |-> TimedThreads,
     capacity |-> ReviewCapacity, queue |-> MaxQueue]

TimedInit ==
    /\ InitProgram
    /\ scope = TimedScope
    /\ multipv_count = 3 /\ time_var = 300 /\ ~live_eval_var

\* The session of SpecTimed is not left.
TimedUi ==
    \/ \E g \in scope.games : load_selected_review_game(g)
    \/ \E i \in {0, Len(review_moves)} : review_jump_to(i)
    \/ \E d \in {-1, 1} : review_step(d)
    \/ _toggle_best
    \/ \E t \in reviewTimers : ReviewTimerFire(t)
    \/ DeliverReview

\* Its one worker succeeds, and finds room in the cache.
TimedWorker ==
    \/ \E t \in threads : WorkerAcquire(t)
    \/ \E t \in threads, v \in scope.scores : WorkerAnalysed(t, v)
    \/ \E t \in threads : WorkerStore(t)
    \/ \E t \in threads : WorkerAppend(t)
    \/ \E t \in threads : WorkerCheck(t)
    \/ \E t \in threads : WorkerPost(t)

NextTimed == TimedUi \/ SliderUi \/ TimedWorker \/ Tick

SpecTimed == TimedInit /\ [][NextTimed]_vars

\* SpecDebounce: the timed session, which may also be left and begun again,
\* so that every handler that cancels the debounce timer takes part.
NextDebounce == NextTimed \/ exit_review_mode \/ late_slider_release

SpecDebounce == TimedInit /\ [][NextDebounce]_vars

\* SpecCache: one session in which three positions are analysed by up to
\* two workers at a time, and the cache has room for two results.
CacheScope ==
    [clock |-> FALSE, games |-> {<<1, 2>>}, scores |-> {1},
     tokens |-> CacheTokens, threads |-> CacheThreads,
     capacity |-> CacheCapacity, queue |-> MaxQueue]

CacheInit ==
    /\ InitProgram
    /\ scope = CacheScope
    /\ engine
    /\ multipv_count = 3 /\ time_var = 300 /\ ~live_eval_var

CacheUi ==
    \/ \E g \in scope.games : load_selected_review_game(g)
    \/ \E d \in {-1, 1} : review_step(d)
    \/ \E t \in reviewTimers : ReviewTimerFire(t)
    \/ DeliverReview

CacheWorker ==
    \/ \E t \in threads : WorkerAcquire(t)
    \/ \E t \in threads, v \in scope.scores : WorkerAnalysed(t, v)
    \/ \E t \in threads : WorkerStore(t)
    \/ \E t \in threads : WorkerAppend(t)
    \/ \E t \in threads : WorkerCheck(t)
    \/ \E t \in threads : WorkerPopOrder(t)
    \/ \E t \in threads : WorkerPopCache(t)
    \/ \E t \in threads : WorkerPost(t)

NextCache == CacheUi \/ CacheWorker

SpecCache == CacheInit /\ [][NextCache]_vars

\* SpecEngine: everything that talks to the engine.  Either a game is
\* played against the engine with hints, or a game is reviewed with the
\* last-move classification and the full-game analysis; in both the live
\* evaluation runs, settings are saved and the program is closed.
EngineScope(play) ==
    [clock |-> FALSE, games |-> {<<1>>}, scores |-> {1},
     tokens |-> EngineTokens, threads |-> EngineThreads,
     capacity |-> CacheCapacity, queue |-> EngineQueue, play |-> play,
     plies |-> MaxBoardLen]

EngineInit ==
    /\ InitProgram
    /\ scope \in {EngineScope(TRUE), EngineScope(FALSE)}
    /\ engine
    /\ multipv_count = 3 /\ time_var = 1000 /\ live_eval_var

EngineUi ==
    \/ ~scope.play /\ \E g \in scope.games : load_selected_review_game(g)
    \/ ~scope.play /\ \E d \in {-1, 1} : review_step(d)
    \/ ~scope.play /\ \E t \in reviewTimers : ReviewTimerFire(t)
    \/ ~scope.play /\ DeliverReview
    \/ ~scope.play /\ analyze_full_game
    \/ scope.play /\ toggle_hint
    \/ scope.play /\ \E m \in {1}, over \in BOOLEAN : on_square_click(m, over)
    \/ \E t \in evalTimers : EvalTimerFire(t)
    \/ DeliverPlain
    \/ save_and_close(time_var, multipv_count)
    \/ save_and_close_done
    \/ cleanup
    \/ cleanup_done

EngineWorker ==
    \/ \E t \in threads : WorkerAcquire(t)
    \/ \E t \in threads, v \in scope.scores : WorkerAnalysed(t, v)
    \/ \E t \in threads : WorkerFailed(t)
    \/ \E t \in threads : WorkerClassify(t)
    \/ \E t \in threads, ok \in BOOLEAN : WorkerClassified(t, ok)
    \/ \E t \in threads : WorkerStore(t)
    \/ \E t \in threads : WorkerAppend(t)
    \/ \E t \in threads : WorkerCheck(t)
    \/ \E t \in threads : WorkerPost(t)
    \/ \E t \in threads : HintStart(t)
    \/ \E t \in threads : EvalStart(t)
    \/ \E t \in threads : FullStart(t)
    \/ \E t \in threads : FullPost(t)
    \/ \E t \in threads : AuxAcquire(t)
    \/ \E t \in threads, m \in {0, 1}, ok \in BOOLEAN : AuxReturned(t, m, ok)
    \/ \E t \in threads : HintSet(t)
    \/ \E t \in threads : AuxPost(t)

NextEngine == EngineUi \/ EngineWorker

SpecEngine == EngineInit /\ [][NextEngine]_vars

\* SpecBreadth: a review in which the number of lines asked for changes
\* ("Best line only") while the full-game analysis, the other user of the
\* engine in a review, runs.
BreadthScope ==
    [clock |-> FALSE, games |-> {<<1>>}, scores |-> {1},
     tokens |-> ReviewTokens, threads |-> ReviewThreads,
     capacity |-> ReviewCapacity, queue |-> EngineQueue]

BreadthInit ==
    /\ InitProgram
    /\ scope = BreadthScope
    /\ engine
    /\ multipv_count = 3 /\ time_var = 300 /\ ~live_eval_var

BreadthUi ==
    \/ \E g \in scope.games : load_selected_review_game(g)
    \/ _toggle_best
    \/ \E t \in reviewTimers : ReviewTimerFire(t)
    \/ DeliverReview
    \/ analyze_full_game
    \/ DeliverPlain

BreadthWorker ==
    \/ \E t \in threads : WorkerAcquire(t)
    \/ \E t \in threads, v \in scope.scores : WorkerAnalysed(t, v)
    \/ \E t \in threads : WorkerStore(t)
    \/ \E t \in threads : WorkerAppend(t)
    \/ \E t \in threads : WorkerCheck(t)
    \/ \E t \in threads : WorkerPopOrder(t)
    \/ \E t \in threads : WorkerPopCache(t)
    \/ \E t \in threads : WorkerPost(t)
    \/ \E t \in threads : FullStart(t)
    \/ \E t \in threads : FullPost(t)
    \/ \E t \in threads : AuxAcquire(t)
    \/ \E t \in threads, m \in {1}, ok \in {TRUE} : AuxReturned(t, m, ok)

NextBreadth == BreadthUi \/ BreadthWorker

SpecBreadth == BreadthInit /\ [][NextBreadth]_vars

\* SpecReload: two games that differ from the first move on are loaded
\* one over the other into the review window while requests are in flight.
ReloadScope ==
    [clock |-> FALSE, games |-> {<<1>>, <<2>>}, scores |-> {1},
     tokens |-> TimedTokens, threads |-> TimedThreads,
     capacity |-> ReviewCapacity, queue |-> MaxQueue]

ReloadInit ==
    /\ InitProgram
    /\ scope = ReloadScope
    /\ engine
    /\ multipv_count = 3 /\ time_var = 300 /\ ~live_eval_var

ReloadUi ==
    \/ \E g \in scope.games : load_selected_review_game(g)
    \/ \E d \in {-1, 1} : review_step(d)
    \/ \E t \in reviewTimers : ReviewTimerFire(t)
    \/ DeliverReview

NextReload == ReloadUi \/ TimedWorker

SpecReload == ReloadInit /\ [][NextReload]_vars

\* SpecSettle: review sessions in which the user navigates for a while
\* and then leaves the window alone: two games are loaded one over the
\* other, the cursor is stepped, the slider is pressed and released.  Each
\* of the user's actions can cost one request, so the user acts while
\* requests are left; the cache has room for every result.
SettleScope ==
    [clock |-> FALSE, games |-> {<<1>>, <<2>>}, scores |-> {1},
     tokens |-> SettleTokens, threads |-> SettleThreads,
     capacity |-> SettleCapacity, queue |-> MaxQueue]

SettleInit ==
    /\ InitProgram
    /\ scope = SettleScope
    /\ engine
    /\ multipv_count = 3 /\ time_var = 300 /\ ~live_eval_var

\* What the user does.
SettleUser ==
    /\ review_engine_token < scope.tokens
    /\ \/ \E g \in scope.games : load_selected_review_game(g)
       \/ \E d \in {-1, 1} : review_step(d)
       \/ _on_review_slider_press
       \/ _on_review_slider_release

\* What the event loop runs by itself: due timers and queued callbacks.
SettleLoop ==
    \/ \E t \in reviewTimers : ReviewTimerFire(t)
    \/ DeliverReview

\* The worker answers or fails, and finds room in the cache.
SettleWorker ==
    \/ TimedWorker
    \/ \E t \in threads : WorkerFailed(t)

NextSettle == SettleUser \/ SettleLoop \/ SettleWorker

SpecSettle == SettleInit /\ [][NextSettle]_vars

\* The threads are scheduled, and the event loop runs what is due.
FairSettle ==
    /\ SpecSettle
    /\ WF_vars(SettleWorker)
    /\ WF_vars(\E t \in reviewTimers : ReviewTimerFire(t))
    /\ WF_vars(DeliverReview)

\* SpecPlay: a game against the engine on the main board, with moves taken
\* back and new games, and with a review entered and left in between.
PlayScope ==
    [clock |-> FALSE, games |-> {<<1>>}, scores |-> {1},
     tokens |-> TimedTokens, threads |-> PlayThreads,
     capacity |-> CacheCapacity, queue |-> EngineQueue, play |-> TRUE,
     plies |-> PlayPlies]

PlayInit ==
    /\ InitProgram
    /\ scope = PlayScope
    /\ engine
    /\ multipv_count = 3 /\ time_var = 1000 /\ ~live_eval_var

PlayUi ==
    \/ \E m \in {1}, over \in BOOLEAN : on_square_click(m, over)
    \/ undo_move
    \/ \E yes \in BOOLEAN : new_game(yes)
    \/ \E g \in scope.games : load_selected_review_game(g)
    \/ exit_review_mode
    \/ DeliverPlain

PlayWorker ==
    \/ \E t \in threads : AuxAcquire(t)
    \/ \E t \in threads, m \in {0, 1}, ok \in BOOLEAN : AuxReturned(t, m, ok)
    \/ \E t \in threads : AuxPost(t)

NextPlay == PlayUi \/ PlayWorker

SpecPlay == PlayInit /\ [][NextPlay]_vars

\* FairPlay: SpecPlay in which the threads and the event loop keep running
\* and the engine answers every call.
FairPlay ==
    PlayInit /\ [][NextPlay]_vars /\ WF_vars(PlayWorker) /\ WF_vars(DeliverPlain)

\* SpecHint: a game on the main board with hints asked for and the live
\* evaluation on, moves taken back, and a review entered.
HintScope ==
    [clock |-> FALSE, games |-> {<<1>>}, scores |-> {1},
     tokens |-> TimedTokens, threads |-> PlayThreads,
     capacity |-> CacheCapacity, queue |-> EngineQueue, play |-> TRUE,
     plies |-> MaxBoardLen]

HintInit ==
    /\ InitProgram
    /\ scope = HintScope
    /\ engine
    /\ multipv_count = 3 /\ time_var = 1000 /\ live_eval_var

HintUi ==
    \/ \E m \in {1}, over \in BOOLEAN : on_square_click(m, over)
    \/ undo_move
    \/ toggle_hint
    \/ \E g \in scope.games : load_selected_review_game(g)
    \/ \E t \in evalTimers : EvalTimerFire(t)
    \/ DeliverPlain

HintWorker ==
    \/ \E t \in threads : HintStart(t)
    \/ \E t \in threads : EvalStart(t)
    \/ \E t \in threads : AuxAcquire(t)
    \/ \E t \in threads, m \in {0, 1}, ok \in BOOLEAN : AuxReturned(t, m, ok)
    \/ \E t \in threads : HintSet(t)
    \/ \E t \in threads : AuxPost(t)

NextHint == HintUi \/ HintWorker

SpecHint == HintInit /\ [][NextHint]_vars

\* SpecCursor: sessions in which games of different lengths, one of them
\* without moves, are loaded one over the other and left, and the cursor is
\* moved by buttons, keys, move table and slider.
CursorScope ==
    [clock |-> FALSE, games |-> {<<>>, <<1>>, <<1, 2>>}, scores |-> {1},
     tokens |-> TimedTokens, threads |-> TimedThreads,
     capacity |-> ReviewCapacity, queue |-> MaxQueue]

CursorInit ==
    /\ InitProgram
    /\ scope = CursorScope
    /\ multipv_count = 3 /\ time_var = 300 /\ ~live_eval_var

NextCursor == SessionUi \/ SliderUi \/ TimedWorker

SpecCursor == CursorInit /\ [][NextCursor]_vars

\* SpecChessy: a game played in the Chessy variant, with hints and with the
\* Analyze, Find Blunders and Review buttons.
ChessyScope ==
    [clock |-> FALSE, games |-> {}, scores |-> {1}, tokens |-> 0,
     threads |-> ChessyThreads, capacity |-> CacheCapacity,
     queue |-> MaxQueue]

ChessyInit ==
    /\ InitProgram
    /\ scope = ChessyScope
    /\ multipv_count = 3 /\ time_var = 1000 /\ ~live_eval_var

ChessyUi ==
    \/ \E m \in {1}, over \in BOOLEAN : chessy_on_click(m, over)
    \/ chessy_toggle_hint
    \/ chessy_analyze_position
    \/ chessy_find_blunders
    \/ chessy_open_game_review
    \/ chessy_ui_acquire
    \/ \E ok \in BOOLEAN : chessy_ui_returned(ok)

ChessyWorker ==
    \/ \E t \in threads, over \in BOOLEAN : chessy_ai_start(t, over)
    \/ \E t \in threads, over \in BOOLEAN : chessy_hint_start(t, over)
    \/ \E t \in threads : chessy_acquire(t)
    \/ \E t \in threads, m \in {0, 1}, ok \in BOOLEAN :
            chessy_returned(t, m, ok)
    \/ \E t \in threads : chessy_ai_push_board(t)
    \/ \E t \in threads : chessy_ai_push_history(t)
    \/ \E t \in threads : chessy_thread_end(t)

NextChessy == ChessyUi \/ ChessyWorker

SpecChessy == ChessyInit /\ [][NextChessy]_vars

\* ------------------------------------------------ claims about the session
\* The request the debounce timer would make now: its position and key.
RequestFen == Fen(review_board[1])
RequestHasStored ==
    /\ review_window /\ engine /\ review_board # None
    /\ \E i \in 1..Len(review_analysis_cache) :
            review_analysis_cache[i].key = <<RequestFen, RequestMultiPV>>

\* C2: _apply_review_engine_result and _apply_review_engine_error, run for a
\* token other than review_engine_token or a ply other than
\* review_move_index, leave top_move_arrows, the evaluation label, the
\* engine-info text and the commentary box as they were.
C2_StaleResultChangesNothing ==
    [][(/\ DeliverReview
        /\ \/ Head(uiQueue).token # review_engine_token
           \/ Head(uiQueue).ply # review_move_index)
       => UNCHANGED uiVisible]_vars

\* A result was dropped while a review window was open to be written to.
C2_Witness ==
    /\ review_window
    /\ \E tok \in DOMAIN reqLog : reqLog[tok] = "discarded"

\* C4: once exit_review_mode has run, the result or error of a request
\* dispatched before it changes nothing of the UI when it is delivered.
C4_ExitOrphansRequests ==
    [][(DeliverReview /\ Head(uiQueue).token <= lastExit)
       => UNCHANGED uiVisible]_vars

\* A request dispatched before an exit was delivered after it, and a new
\* session is open.
C4_Witness ==
    /\ review_window
    /\ \E tok \in DOMAIN reqLog : reqLog[tok] = "orphaned" /\ tok <= lastExit

\* C5: when _request_review_engine_analysis runs for a (FEN, multipv) whose
\* result is in the cache, the UI shows exactly the stored tuple, which was
\* computed for that FEN and multipv, no thread is started, the engine lock
\* is not taken and review_engine_token stays.
C5_CacheHitAppliesStored ==
    [][\A t \in reviewTimers :
        (ReviewTimerFire(t) /\ RequestHasStored)
        => LET stored == DictGet(review_analysis_cache,
                                 <<RequestFen, RequestMultiPV>>)
           IN /\ stored.arrows[1] = RequestFen
              /\ stored.arrows[2] = RequestMultiPV
              /\ top_move_arrows' = stored.arrows
              /\ review_eval_value_label' =
                    Some(<<"Evaluation:", stored.label>>)
              /\ review_analysis_text' = Some(<<"lines", stored.lines>>)
              /\ threads' = threads
              /\ engine_lock' = engine_lock
              /\ review_engine_token' = review_engine_token]_vars

\* The UI shows a result that no worker's callback put there: the fast path
\* did.
C5_Witness ==
    /\ review_engine_info_var = Some(<<"Suggestions updated.">>)
    /\ top_move_arrows # <<>>
    /\ \A tok \in DOMAIN reqLog : reqLog[tok] # "accepted"

\* Who carries the result of the request with token tok: its worker, or a
\* callback in the event queue.
Carriers(tok) ==
    Cardinality({t \in threads : t.kind = "review" /\ t.token = tok})
        + Cardinality({i \in 1..Len(uiQueue) :
                          /\ uiQueue[i].kind \in {"result", "error"}
                          /\ uiQueue[i].token = tok})

\* What became of the request with token tok.
Fate(tok) == IF tok \in DOMAIN reqLog THEN reqLog[tok] ELSE "none"

BurstGoesOn ==
    /\ nav.navSeen /\ nav.sinceNav < DebounceTicks
    /\ nav'.navSeen /\ nav'.sinceNav = 0 /\ nav'.burst = Min(2, nav.burst + 1)

\* This step is a call of _request_review_engine_analysis.
RequestCall == \E t \in reviewTimers : ReviewTimerFire(t)

\* The threads this step starts.
Started == {t \in threads' : t.id \notin ThreadIds(threads)}

\* A request this step dispatches is for the cursor as it is and for the
\* position the game has there.
RequestForCursor ==
    \A t \in Started :
        /\ t.ply = review_move_index
        /\ t.fen = Fen(Replay(review_moves, review_move_index))

\* C3 as stated: every burst of review_jump_to/review_step calls less than
\* the debounce delay apart (made while the slider is not held) leads to
\* exactly one _request_review_engine_analysis call, after the last of them
\* and for the cursor it left, and to none in between.
C3_EveryBurstCoalesced ==
    /\ [][(BurstGoesOn /\ ~sliderHeld) => nav.reqSinceNav = 0]_vars
    /\ [](nav.navSeen /\ ~sliderHeld
            => nav.reqSinceNav + Cardinality(reviewTimers) = 1)
    /\ [][(RequestCall /\ nav.navSeen /\ ~sliderHeld)
            => RequestForCursor]_vars

\* C3, amended: every burst of calls that each move the cursor to another
\* ply while the slider is not held leads to exactly one
\* _request_review_engine_analysis call, after the last of them and for the
\* cursor it left, and to none in between.
C3_MovingBurstCoalesced ==
    /\ [][(BurstGoesOn /\ nav'.allMoved) => nav.reqSinceNav = 0]_vars
    /\ [](nav.navSeen /\ nav.allMoved
            => nav.reqSinceNav + Cardinality(reviewTimers) = 1)
    /\ [][(RequestCall /\ nav.navSeen /\ nav.allMoved)
            => RequestForCursor]_vars

\* Two or more calls that moved the cursor made a burst, and the one request
\* after it has been made.
C3_Witness ==
    /\ nav.navSeen /\ nav.allMoved /\ nav.burst = 2
    /\ nav.reqSinceNav = 1

\* C8: while the slider is held no debounce timer is armed and no request is
\* dispatched, whatever else is done; _on_review_slider_release arms exactly
\* one timer, with the full delay, dispatches nothing itself and leaves the
\* cursor and the board where they are.
C8_DragSuspendsRequests ==
    /\ [](sliderHeld => reviewTimers = {} /\ _review_after_id = 0)
    /\ [][sliderHeld => /\ ~RequestCall
                        /\ DOMAIN reqLog' = DOMAIN reqLog
                        /\ Started = {}]_vars
    /\ [][_on_review_slider_release
            => /\ Cardinality(reviewTimers') = 1
               /\ \A t \in reviewTimers' :
                      t.id = _review_after_id' /\ t.left = ArmDelay
               /\ review_move_index' = review_move_index
               /\ review_board' = review_board
               /\ DOMAIN reqLog' = DOMAIN reqLog]_vars

\* The slider was released after a drag that moved the cursor, and the one
\* timer is armed.
C8_Witness ==
    /\ nav.released
    /\ Cardinality(reviewTimers) = 1

\* --------------------------------------------------- claims about the cache
\* This step ends the insertion of a worker: the size check found nothing to
\* evict, or the eviction is done.
InsertionCompletes ==
    \E t \in threads, u \in threads' :
        /\ t.id = u.id /\ t.kind = "review"
        /\ t.pc \in {"check", "pop_cache"} /\ u.pc = "post"

\* C6: when a worker's insertion into the cache completes,
\* review_analysis_cache holds at most _review_cache_max entries, however
\* the insertions of the workers interleave.
C6_CacheWithinCapacity ==
    [][InsertionCompletes
        => Len(review_analysis_cache') <= review_cache_max]_vars

\* C7: an eviction from a cache that exceeds its capacity removes exactly
\* one entry, the one inserted first among those the cache holds; a lookup
\* that hits changes neither the cache nor the eviction order.
C7_EvictsOldestOnly ==
    /\ [][(/\ Len(review_analysis_cache) > review_cache_max
           /\ Len(review_analysis_cache') < Len(review_analysis_cache))
          => review_analysis_cache' = Tail(review_analysis_cache)]_vars
    /\ [][(RequestCall /\ RequestHasStored) => UNCHANGED cacheVars]_vars

\* -------------------------------------------------- claims about the engine
\* The threads that stand at "with self.engine_lock:".
AtLock ==
    {t \in threads :
        \/ t.kind = "review" /\ t.pc \in {"start", "pre_wait", "post_wait"}
        \/ t.kind # "review" /\ t.pc = "wait"}

\* C1: at most one thread is inside engine.analyse or engine.play, whichever
\* of calculate_hint, get_position_evaluation, ai_move, analyze_full_game
\* and the review worker the threads run, and it is the one that holds
\* engine_lock.
C1_OneEngineCall ==
    /\ Cardinality(InEngineCall) <= 1
    /\ \A t \in InEngineCall : engine_lock = t.id

\* One worker is inside its engine call while a worker of another kind
\* stands at the lock.
C1_Witness ==
    \E t \in InEngineCall, u \in AtLock : u.kind # t.kind

\* C9: engine.configure of save_and_close and engine.quit of cleanup do not
\* run while a worker is inside engine.analyse or engine.play.
C9_NoCommandDuringCall ==
    uiPc \in {"configure", "quit"} => InEngineCall = {}

\* ------------------------------------------------- claims about the token
\* C11: review_engine_token never decreases, and a request handed to a worker
\* carries the token as it is after the dispatch, which is greater than the
\* token of every request dispatched before; so no two workers and no two
\* callbacks of different requests carry one token.
C11_TokensStrictlyIncrease ==
    /\ [][review_engine_token' >= review_engine_token]_vars
    /\ [][\A t \in Started :
            t.kind = "review"
            => /\ t.token = review_engine_token'
               /\ \A tok \in DOMAIN reqLog : t.token > tok]_vars
    /\ [](\A t, u \in threads :
            (t.kind = "review" /\ u.kind = "review" /\ t.token = u.token)
                => t = u)

\* Two requests were dispatched and exit_review_mode has run as well.
C11_Witness ==
    /\ Cardinality(DOMAIN reqLog) = 2
    /\ lastExit >= 0

C13_NoEngineNoRequest ==
    [][(RequestCall /\ ~engine)
       => /\ review_engine_info_var' = Some(<<"Engine not available.">>)
          /\ threads' = threads
          /\ review_engine_token' = review_engine_token
          /\ DOMAIN reqLog' = DOMAIN reqLog
          /\ UNCHANGED <<cacheVars, engine_lock, uiQueue, top_move_arrows,
                         review_eval_value_label, review_analysis_text>>]_vars

\* No engine is loaded and the review window says so.
C13_Witness ==
    /\ ~engine /\ review_window
    /\ review_engine_info_var = Some(<<"Engine not available.">>)

\* -------------------------------------------- claims about the UI thread
\* C14: the event-loop thread is never at a "with self.engine_lock:" and
\* never inside engine.analyse or engine.play, in chess_gui.py and in
\* chessy.py alike: those are reached by worker threads only.
C14_UiThreadNeverCallsEngine ==
    /\ uiPc \notin UiWaitPcs \cup UiCallPcs
    /\ engine_lock # UiThreadId

\* ------------------------------------------------ claims about the cursor
\* The indices review_jump_to is called with: from one before the start to
\* one past the end of the longest game.
JumpTargets == -1..(MaxPly + 1)

\* C15: review_jump_to(index) leaves review_move_index at index brought
\* into 0..len(review_moves).  If that is where the cursor was, nothing
\* changes: no refresh, no timer armed or cancelled.  Otherwise the position
\* is refreshed once: the board is rebuilt for the new cursor, the
\* placeholders are shown and, the slider not being dragged, one debounce
\* timer is left armed, the one _review_after_id names.
C15_JumpClampsAndRefreshes ==
    [][\A index \in JumpTargets :
        review_jump_to(index)
        => LET clamped == IF index < 0 THEN 0
                          ELSE IF index > Len(review_moves)
                          THEN Len(review_moves) ELSE index
           IN /\ review_move_index' = clamped
              /\ UNCHANGED <<review_moves, review_engine_token, threads,
                             uiQueue, cacheVars, review_analysis_text>>
              /\ IF clamped = review_move_index
                 THEN UNCHANGED <<review_board, top_move_arrows,
                                  review_eval_value_label,
                                  review_engine_info_var, _review_after_id,
                                  reviewTimers>>
                 ELSE /\ review_board' = Some(SubSeq(review_moves, 1, clamped))
                      /\ top_move_arrows' = <<>>
                      /\ review_eval_value_label' = Some(<<"Evaluation: ...">>)
                      /\ review_engine_info_var' =
                            Some(<<"Analyzing position...">>)
                      /\ IF _review_slider_dragging
                         THEN UNCHANGED <<_review_after_id, reviewTimers>>
                         ELSE /\ Cardinality(reviewTimers') = 1
                              /\ \A t \in reviewTimers' :
                                    t.id = _review_after_id']_vars

\* A jump moved the cursor to the end of the game: the board shows all the
\* moves, the placeholders are up and the timer is armed.
C15_Witness ==
    /\ review_moves # <<>>
    /\ review_move_index = Len(review_moves)
    /\ review_board = Some(review_moves)
    /\ review_engine_info_var = Some(<<"Analyzing position...">>)
    /\ reviewTimers # {}

\* C16: the cursor is within the game, 0 <= review_move_index <=
\* len(review_moves), whatever is done: jumps, steps, slider moves, clicks
\* on the move table, loading a game over a longer one, leaving the review.
C16_CursorWithinGame ==
    /\ 0 <= review_move_index
    /\ review_move_index <= Len(review_moves)

\* A game was loaded over a longer one in which the cursor had been moved
\* past the new game's end.
C16_Witness ==
    /\ review_window
    /\ Len(review_moves) = 1
    /\ review_board = Some(<<>>)
    /\ \E i \in 1..Len(review_analysis_cache) :
            review_analysis_cache[i].key[1].ply = 2

\* This step is a navigation: a review_jump_to call (review_step, the slider
\* and the move table make one) or the loading of a game with the
\* open_review_window call that follows it.
Navigation ==
    \/ \E index \in JumpTargets : review_jump_to(index)
    \/ \E g \in scope.games : load_selected_review_game(g)

\* C17: after every navigation review_board is the position reached by
\* playing review_moves[0 .. review_move_index - 1] from the initial
\* position; and so it is whenever a review board exists.
C17_BoardIsReplay ==
    /\ [][Navigation
            => review_board' =
                 Some(SubSeq(review_moves', 1, review_move_index'))]_vars
    /\ [](review_board # None
            => review_board = Some(SubSeq(review_moves, 1, review_move_index)))

\* The cursor is at the end of a two-move game and the board has both moves
\* on it.
C17_Witness ==
    /\ review_window
    /\ review_move_index = 2
    /\ review_board = Some(<<1, 2>>)

\* C18: the review analysis cache is written only by steps of the review
\* analysis worker; every entry is stored under the pair (FEN, multipv) its
\* tuple was computed for, so a lookup made with breadth b can only return a
\* result computed with breadth b; the steps of the other threads that use
\* the engine and the handlers of the event loop leave the cache as it is.
CacheWriterPcs == {"store", "append", "pop_order", "pop_cache"}

C18_CacheKeyedByFenAndBreadth ==
    /\ [](\A i \in 1..Len(review_analysis_cache) :
            LET e == review_analysis_cache[i]
            IN e.key = <<e.val.arrows[1], e.val.arrows[2]>>)
    /\ [][\A t \in reviewTimers :
            (ReviewTimerFire(t) /\ top_move_arrows' # top_move_arrows
                /\ top_move_arrows' # <<>>)
            => top_move_arrows'[2] = RequestMultiPV]_vars
    /\ [][cacheVars' # cacheVars
            => \E t \in threads :
                /\ t.kind = "review" /\ t.pc \in CacheWriterPcs
                /\ t \notin threads']_vars

C18_Witness ==
    /\ \E i \in 1..Len(review_analysis_cache) :
            review_analysis_cache[i].key[2] = 1
    /\ \E t \in threads : t.kind = "full"
    /\ RequestMultiPV = 3
    /\ top_move_arrows # <<>> /\ top_move_arrows[2] = 3

\* C19: at most one review debounce timer is armed at any time, and
\* _review_after_id is set exactly when one is armed and names it; pressing
\* the slider or leaving the review when no timer is armed changes neither
\* the timers nor _review_after_id; and whenever a handler arms a timer, the
\* timer it armed, with the whole delay ahead of it, is the only one left.
Cancelling == _on_review_slider_press \/ exit_review_mode

C19_OneDebounceTimer ==
    /\ [](Cardinality(reviewTimers) <= 1)
    /\ []((_review_after_id # 0) <=> (reviewTimers # {}))
    /\ [](\A t \in reviewTimers : t.id = _review_after_id)
    /\ [][(Cancelling /\ reviewTimers = {})
            => /\ reviewTimers' = {}
               /\ _review_after_id' = _review_after_id]_vars
    /\ [][(~Tick /\ reviewTimers' # reviewTimers /\ reviewTimers' # {})
            => reviewTimers' =
                    {[id |-> _review_after_id', left |-> ArmDelay]}]_vars

\* In a session begun after an earlier one was left, a second navigation
\* within the delay has superseded the timer of the first.
C19_Witness ==
    /\ nav.burst = 2 /\ nav.allMoved /\ nav.sinceNav = 0
    /\ reviewTimers = {[id |-> _review_after_id, left |-> DebounceTicks]}
    /\ lastExit >= 0

\* C20: once a request made after it has been served for the view now
\* shown (the cursor, the position and the number of lines asked for), by
\* the cache fast path, the result of a request dispatched earlier is not
\* applied: _apply_review_engine_result drops it.
ServedForView ==
    /\ servedView # None
    /\ servedView = Some(<<review_move_index, RequestFen, RequestMultiPV>>)

C20_EarlierResultNotApplied ==
    [][(DeliverReview /\ Head(uiQueue).kind = "result" /\ ServedForView)
        => ~ResultIsCurrent(Head(uiQueue).token, Head(uiQueue).ply)]_vars

\* C21: whenever _apply_review_engine_result applies a result, the position
\* the result was computed for is the position of the review board, also
\* when another game was loaded into the open window in the meantime.
C21_AppliedResultIsForShownPosition ==
    [][(/\ DeliverReview
        /\ Head(uiQueue).kind = "result"
        /\ ResultIsCurrent(Head(uiQueue).token, Head(uiQueue).ply))
       => Head(uiQueue).res.arrows[1] = RequestFen]_vars

\* C26: review_mode is set only while a review window exists.
C26_ReviewModeHasWindow == review_mode => review_window

\* C28: whenever no worker is in the middle of its insertion, the keys of
\* review_analysis_cache are the keys listed in _review_cache_order, and no
\* key is listed twice.
OrderKeys == {_review_cache_order[i] : i \in 1..Len(_review_cache_order)}

Inserting ==
    {t \in threads :
        /\ t.kind = "review"
        /\ t.pc \in {"append", "check", "pop_order", "pop_cache"}}

C28_CacheAndOrderAgree ==
    Inserting = {}
        => /\ DictKeys(review_analysis_cache) = OrderKeys
           /\ Cardinality(OrderKeys) = Len(_review_cache_order)

\* C23: while no review window exists no debounce timer is armed, so none
\* can fire; no step taken without a window, a late slider release
\* included, arms a timer, changes the token or starts a worker; and
\* exit_review_mode leaves no timer behind.
C23_NothingScheduledAfterExit ==
    /\ [](~review_window => reviewTimers = {} /\ _review_after_id = 0)
    /\ [][(~review_window /\ ~review_window')
            => /\ review_engine_token' = review_engine_token
               /\ {t.id : t \in threads'} \subseteq {t.id : t \in threads}
               /\ reviewTimers' = {}]_vars
    /\ [][exit_review_mode
            => reviewTimers' = {} /\ _review_after_id' = 0]_vars

\* The review was left while a request was in flight.
C23_Witness ==
    /\ ~review_window /\ lastExit >= 0
    /\ \E t \in threads : t.kind = "review"

\* ---------------------------------------------- claims about the main board
\* C22: apply_ai_move pushes the engine's move only onto the position the
\* engine was given; a move that comes back after new_game or undo_move
\* changed the board is not pushed.
C22_AiMovePushedOnItsPosition ==
    [][(/\ DeliverPlain
        /\ Head(uiQueue).kind = "apply_ai_move"
        /\ board' # board)
       => Head(uiQueue).pos = board]_vars

\* C24: once an ai_move thread runs with ai_thinking set, ai_thinking is
\* reset in the end, whether the engine gives a move, gives none or raises.
C24_AiThinkingReset ==
    (ai_thinking /\ \E t \in threads : t.kind = "ai") ~> ~ai_thinking

\* C27: move_history holds the moves of the main board's move stack, in
\* the same order.
C27_HistoryIsBoardStack == move_history = board

\* C29: while review_mode is set, no thread of analyze_current_position is
\* started, not even by an evaluation timer armed before the review began.
C29_NoLiveEvaluationInReview ==
    [][review_mode => \A t \in Started : t.kind # "eval"]_vars

\* C30: whenever a handler has drawn the main board with a hint shown
\* (show_hint set and hint_move set), the hint is the engine's move for the
\* position the board is in.
DrawsBoard ==
    \/ DeliverPlain /\ Head(uiQueue).kind \in {"draw_board", "apply_ai_move"}
    \/ undo_move
    \/ toggle_hint /\ ~show_hint'
    \/ \E m \in {1}, over \in BOOLEAN : on_square_click(m, over)

C30_HintIsForCurrentPosition ==
    [][(DrawsBoard /\ show_hint' /\ hint_move' # None)
        => hint_move'[1].pos = board']_vars

\* C25: if the user stops navigating with the review window open and the
\* slider not held (the engine is loaded), then from some point on the
\* window shows an analysis of the position under the cursor, or the engine
\* error, and no longer the "Analyzing position..." placeholder.
UserActs ==
    \/ \E g \in scope.games : load_selected_review_game(g)
    \/ \E index \in JumpTargets : review_jump_to(index)
    \/ _on_review_slider_press
    \/ _on_review_slider_release

Placeholder == review_engine_info_var = Some(<<"Analyzing position...">>)

ShownForCursor ==
    \/ review_engine_info_var = Some(<<"Engine error.">>)
    \/ /\ review_engine_info_var = Some(<<"Suggestions updated.">>)
       /\ top_move_arrows # <<>>
       /\ top_move_arrows[1] = RequestFen

C25_AnalysisSettles ==
    \/ []<><<UserActs>>_vars
    \/ []<>(~review_window \/ sliderHeld)
    \/ <>[]ShownForCursor

====
